---- MODULE Spec2Model ----
(***************************************************************************)
(* Genesis tool of gravity_chain_core_contracts (genesis-tool/src):        *)
(* contract seeding, the sequential execution engine, the outcome check,   *)
(* the snapshot merge and the three emitted artifacts.                     *)
(*                                                                         *)
(* The virtual machine (revm) is an external collaborator.  It is          *)
(* represented by a small deterministic machine, Transact, whose contract  *)
(* programs are selected by the first byte of the target's code; it        *)
(* produces every kind of outcome (Success, Revert, Halt, EVM error) and   *)
(* every kind of account-level write the genesis tool has to handle.       *)
(*                                                                         *)
(* Amounts are 256-bit unsigned integers in the program.  The model keeps  *)
(* the wrapping arithmetic but scales the width down: one unit stands for  *)
(* 10^24 wei and U256_MOD stands for 2^256.                                *)
(***************************************************************************)
EXTENDS Integers, Sequences, FiniteSets, TLC

(***************************************************************************)
(* Bounds of the model.                                                    *)
(***************************************************************************)
\* largest number of validators in a configuration
MaxValidators == 2
\* largest number of transactions in a batch handed to the engine
MaxBatch == 2
\* number of distinct clock readings (seconds) prepare_env can observe
MaxClock == 2
MaxRuns == 2

(***************************************************************************)
(* System addresses, utils.rs:14-100 (leading zeros dropped).              *)
(***************************************************************************)
SYSTEM_CALLER == "1625F0000"
GENESIS_ADDR == "1625F0001"
TIMESTAMP_ADDR == "1625F1000"
STAKE_CONFIG_ADDR == "1625F1001"
VALIDATOR_CONFIG_ADDR == "1625F1002"
RANDOMNESS_CONFIG_ADDR == "1625F1003"
GOVERNANCE_CONFIG_ADDR == "1625F1004"
EPOCH_CONFIG_ADDR == "1625F1005"
VERSION_CONFIG_ADDR == "1625F1006"
CONSENSUS_CONFIG_ADDR == "1625F1007"
EXECUTION_CONFIG_ADDR == "1625F1008"
ORACLE_TASK_CONFIG_ADDR == "1625F1009"
ON_DEMAND_ORACLE_TASK_CONFIG_ADDR == "1625F100A"
STAKING_ADDR == "1625F2000"
VALIDATOR_MANAGER_ADDR == "1625F2001"
DKG_ADDR == "1625F2002"
RECONFIGURATION_ADDR == "1625F2003"
BLOCK_ADDR == "1625F2004"
GOVERNANCE_ADDR == "1625F3000"
NATIVE_ORACLE_ADDR == "1625F4000"
JWK_MANAGER_ADDR == "1625F4001"

\* The registry of system contracts: (name, address), in deployment order.
CONTRACTS ==
    << <<"Genesis", GENESIS_ADDR>>,
       <<"Reconfiguration", RECONFIGURATION_ADDR>>,
       <<"StakingConfig", STAKE_CONFIG_ADDR>>,
       <<"Staking", STAKING_ADDR>>,
       <<"ValidatorManagement", VALIDATOR_MANAGER_ADDR>>,
       <<"Governance", GOVERNANCE_ADDR>>,
       <<"ValidatorConfig", VALIDATOR_CONFIG_ADDR>>,
       <<"Blocker", BLOCK_ADDR>>,
       <<"Timestamp", TIMESTAMP_ADDR>>,
       <<"JWKManager", JWK_MANAGER_ADDR>>,
       <<"NativeOracle", NATIVE_ORACLE_ADDR>>,
       <<"RandomnessConfig", RANDOMNESS_CONFIG_ADDR>>,
       <<"DKG", DKG_ADDR>>,
       <<"GovernanceConfig", GOVERNANCE_CONFIG_ADDR>>,
       <<"EpochConfig", EPOCH_CONFIG_ADDR>>,
       <<"VersionConfig", VERSION_CONFIG_ADDR>>,
       <<"ConsensusConfig", CONSENSUS_CONFIG_ADDR>>,
       <<"ExecutionConfig", EXECUTION_CONFIG_ADDR>>,
       <<"OracleTaskConfig", ORACLE_TASK_CONFIG_ADDR>>,
       <<"OnDemandOracleTaskConfig", ON_DEMAND_ORACLE_TASK_CONFIG_ADDR>> >>

ContractNames == {CONTRACTS[i][1] : i \in 1..Len(CONTRACTS)}
ContractAddrs == {CONTRACTS[i][2] : i \in 1..Len(CONTRACTS)}

\* Addresses only the virtual machine brings into play: the block's
\* beneficiary (Env::default), a contract deployed during execution (a stake
\* pool) and an externally owned account that receives value.
COINBASE == "0"
POOL_ADDR == "POOL"
EOA_ADDR == "EOA"

(***************************************************************************)
(* 256-bit unsigned arithmetic (U256 of revm::primitives), scaled down.    *)
(***************************************************************************)
U256_MOD == 32
U256 == 0..(U256_MOD - 1)
U256Add(a, b) == (a + b) % U256_MOD
U256Sub(a, b) == (a - b + U256_MOD) % U256_MOD

\* 10_000_000 * 10^18 wei and 1_000_000 * 10^18 wei, in units of 10^24 wei
SYSTEM_CALLER_BUFFER == 10
GENESIS_BUFFER == 1

(***************************************************************************)
(* Bytes, hex text and bytecode objects.                                   *)
(***************************************************************************)
HexDigits == <<"0", "1", "2", "3", "4", "5", "6", "7", "8", "9",
               "a", "b", "c", "d", "e", "f">>
UpperDigits == <<"A", "B", "C", "D", "E", "F">>
Whitespace == {" ", "\n"}

IsHexChar(c) ==
    \/ \E i \in 1..16 : HexDigits[i] = c
    \/ \E i \in 1..6 : UpperDigits[i] = c

HexVal(c) ==
    IF \E i \in 1..16 : HexDigits[i] = c
    THEN (CHOOSE i \in 1..16 : HexDigits[i] = c) - 1
    ELSE (CHOOSE i \in 1..6 : UpperDigits[i] = c) + 9

\* str::trim: whitespace removed at both ends
RECURSIVE TrimStart(_)
TrimStart(s) ==
    IF s # <<>> /\ Head(s) \in Whitespace THEN TrimStart(Tail(s)) ELSE s

RECURSIVE TrimEnd(_)
TrimEnd(s) ==
    IF s # <<>> /\ s[Len(s)] \in Whitespace
    THEN TrimEnd(SubSeq(s, 1, Len(s) - 1))
    ELSE s

Trim(s) == TrimEnd(TrimStart(s))

\* hex::decode: Err on an odd length or on a character that is no hex digit
HexDecodable(s) ==
    /\ Len(s) % 2 = 0
    /\ \A i \in 1..Len(s) : IsHexChar(s[i])

HexDecode(s) ==
    [i \in 1..(Len(s) \div 2) |-> 16 * HexVal(s[2 * i - 1]) + HexVal(s[2 * i])]

\* Option<Bytecode>
NoCode == [some |-> FALSE, bytes |-> <<>>]
SomeCode(b) == [some |-> TRUE, bytes |-> b]

\* hex::encode: two lower-case digits per byte
RECURSIVE HexEncode(_)
HexEncode(bytes) ==
    IF bytes = <<>> THEN <<>>
    ELSE <<HexDigits[(Head(bytes) \div 16) + 1], HexDigits[(Head(bytes) % 16) + 1]>>
            \o HexEncode(Tail(bytes))

\* B256 code hashes: the hash of the empty byte string, else the hash of b
KECCAK_EMPTY == <<"keccak">>
Keccak(b) == IF b = <<>> THEN KECCAK_EMPTY ELSE <<"keccak", b>>

(***************************************************************************)
(* Maps (HashMap) as functions over a finite key set.                      *)
(***************************************************************************)
EmptyMap == [x \in {} |-> 0]
Put(m, k, v) == [x \in DOMAIN m \cup {k} |-> IF x = k THEN v ELSE m[x]]
Remove(m, k) == [x \in DOMAIN m \ {k} |-> m[x]]
\* HashMap::extend: the entries of m2 are inserted into m1, overriding
Extend(m1, m2) ==
    [x \in DOMAIN m1 \cup DOMAIN m2 |-> IF x \in DOMAIN m2 THEN m2[x] ELSE m1[x]]

(***************************************************************************)
(* Accounts and the in-memory database (InMemoryDB = CacheDB<EmptyDB>).    *)
(***************************************************************************)
\* AccountInfo::default()
AccountInfoDefault ==
    [balance |-> 0, nonce |-> 0, code_hash |-> KECCAK_EMPTY, code |-> SomeCode(<<>>)]

\* Option<AccountInfo>
NoInfo == [some |-> FALSE, info |-> AccountInfoDefault]
SomeInfo(i) == [some |-> TRUE, info |-> i]

\* AccountInfo::is_empty: no balance, no nonce, empty code hash
InfoIsEmpty(i) == i.balance = 0 /\ i.nonce = 0 /\ i.code_hash = KECCAK_EMPTY

\* CacheDB::insert_contract: a non-empty code object fixes the code hash
insert_contract(info) ==
    IF info.code.some /\ info.code.bytes # <<>> /\ info.code_hash = KECCAK_EMPTY
    THEN [info EXCEPT !.code_hash = Keccak(info.code.bytes)]
    ELSE info

\* CacheDB::insert_account_info: accounts.entry(address).or_default().info = info
insert_account_info(db, address, info) ==
    LET old == IF address \in DOMAIN db THEN db[address].storage ELSE EmptyMap
    IN  Put(db, address, [info |-> insert_contract(info), storage |-> old])

(***************************************************************************)
(* Bytecode source: one hex file per registered contract name.             *)
(***************************************************************************)
NoFile == [exists |-> FALSE, text |-> <<>>]
FileOf(text) == [exists |-> TRUE, text |-> text]

\* read_hex_from_file panics (expect) when the file cannot be read
CanRead(file) == file.exists

\* extract_runtime_bytecode: hex::decode(trim).unwrap_or_default(); both
\* branches of the constructor heuristic return the decoded bytes
extract_runtime_bytecode(constructor_bytecode) ==
    LET t == Trim(constructor_bytecode)
        bytes == IF HexDecodable(t) THEN HexDecode(t) ELSE <<>>
    IN  IF Len(bytes) > 100 /\ (bytes[1] = 96 \/ bytes[1] = 97)
        THEN bytes
        ELSE bytes

(***************************************************************************)
(* Configuration and the initialize transaction (genesis.rs).              *)
(***************************************************************************)
RECURSIVE SumStake(_, _)
SumStake(validators, acc) ==
    IF validators = <<>> THEN acc
    ELSE SumStake(Tail(validators), U256Add(acc, Head(validators).stake_amount))

\* calculate_total_stake: fold(U256::ZERO, |acc, stake| acc + stake)
calculate_total_stake(config) == SumStake(config.validators, 0)

NoTarget == "none"
TxCall(contract) == [kind |-> "Call", addr |-> contract]
TxCreate == [kind |-> "Create", addr |-> NoTarget]

\* a call from the system caller that offers a gas price
NewPricedCallTxn(contract, input) ==
    [caller |-> SYSTEM_CALLER, gas_price |-> 1, transact_to |-> TxCall(contract),
     value |-> 0, data |-> input]

\* new_system_call_txn
new_system_call_txn(contract, input) ==
    [caller |-> SYSTEM_CALLER, gas_price |-> 0, transact_to |-> TxCall(contract),
     value |-> 0, data |-> input]

\* new_system_call_txn_with_value
new_system_call_txn_with_value(contract, input, value) ==
    [caller |-> SYSTEM_CALLER, gas_price |-> 0, transact_to |-> TxCall(contract),
     value |-> value, data |-> input]

\* new_system_create_txn: the payload is the decoded code followed by the args
new_system_create_txn(code, args) ==
    [caller |-> SYSTEM_CALLER, gas_price |-> 0, transact_to |-> TxCreate,
     value |-> 0, data |-> code \o args]

\* Genesis::initializeCall{params}.abi_encode(): the payload is opaque to the
\* tool; it is the selector followed by the encoded configuration
InitializeCallData(config) == <<"initialize", config.validators>>

call_genesis_initialize(genesis_address, config) ==
    new_system_call_txn_with_value(genesis_address, InitializeCallData(config),
                                   calculate_total_stake(config))

\* a builder that submits the call twice
BuildTwoTransactions(config) ==
    <<call_genesis_initialize(GENESIS_ADDR, config),
      call_genesis_initialize(GENESIS_ADDR, config)>>

\* GenesisTransactionBuilder::new(config).build()
build_genesis_transactions(config) == <<call_genesis_initialize(GENESIS_ADDR, config)>>

\* prepare_env: chain id from the configuration, block.timestamp from the clock
prepare_env(chain_id, now) ==
    [chain_id |-> chain_id, gas_limit |-> 30000000, timestamp |-> now]

(***************************************************************************)
(* The Contract Seeder.                                                    *)
(***************************************************************************)
\* a seeder that funds every registry contract
SeedBalanceAll(contract_name, total_stake) == U256Add(total_stake, GENESIS_BUFFER)

\* lines 39-45: only the Genesis contract holds the pooled stake
SeedBalance(contract_name, total_stake) ==
    IF contract_name = "Genesis"
    THEN U256Add(total_stake, GENESIS_BUFFER)
    ELSE 0

\* one iteration of the loop of deploy_bsc_style
DeployContract(db, files, total_stake, i) ==
    LET contract_name == CONTRACTS[i][1]
        target_address == CONTRACTS[i][2]
        runtime_bytecode == extract_runtime_bytecode(files[contract_name].text)
    IN  insert_account_info(db, target_address,
            [AccountInfoDefault EXCEPT
                !.code = SomeCode(runtime_bytecode),
                !.balance = SeedBalance(contract_name, total_stake)])

RECURSIVE DeployFrom(_, _, _, _)
DeployFrom(db, files, total_stake, i) ==
    IF i > Len(CONTRACTS) THEN db
    ELSE DeployFrom(DeployContract(db, files, total_stake, i), files, total_stake, i + 1)

\* the funding account inserted first
SystemCallerInfo(total_stake) ==
    [AccountInfoDefault EXCEPT
        !.balance = U256Add(total_stake, SYSTEM_CALLER_BUFFER),
        !.nonce = 1]

\* deploy_bsc_style, when every file can be read
deploy_bsc_style(files, total_stake) ==
    DeployFrom(insert_account_info(EmptyMap, SYSTEM_CALLER, SystemCallerInfo(total_stake)),
               files, total_stake, 1)

\* deploy_bsc_style panics at the first registry entry whose file is missing
DeployPanics(files) == \E i \in 1..Len(CONTRACTS) : ~CanRead(files[CONTRACTS[i][1]])

(***************************************************************************)
(* The engine's working state: revm's State over the base database         *)
(* (StateBuilder, utils.rs:202-212).                                       *)
(*   base         the DatabaseRef handed in (read only)                    *)
(*   cache        accounts loaded or written so far                        *)
(*   track        whether transitions are recorded (with_bundle_update)    *)
(*   transitions  the per-address transitions since the last merge         *)
(*   bundle       the bundle state (the pre-existing delta, if given)      *)
(*   preloaded    whether reads consult the bundle before the base         *)
(***************************************************************************)
Slots == {0, 1}

\* StateBuilder::new().with_bundle_update().with_database_ref(db).build()
StateWithBundleUpdate(db) ==
    [base |-> db, cache |-> EmptyMap, track |-> TRUE, transitions |-> EmptyMap,
     bundle |-> EmptyMap, preloaded |-> FALSE]

\* StateBuilder::new().with_bundle_prestate(pre_bundle).with_database_ref(db).build()
StateWithBundlePrestate(db, pre_bundle) ==
    [base |-> db, cache |-> EmptyMap, track |-> FALSE, transitions |-> EmptyMap,
     bundle |-> pre_bundle, preloaded |-> TRUE]

\* Option<BundleState>
NoBundle == [some |-> FALSE, bundle |-> EmptyMap]
SomeBundle(b) == [some |-> TRUE, bundle |-> b]

\* the first statement of execute_revm_sequential
BuildState(db, pre_bundle) ==
    IF pre_bundle.some
    THEN StateWithBundlePrestate(db, pre_bundle.bundle)
    ELSE StateWithBundleUpdate(db)

\* State::load_cache_account: the cache entry of an address, loading it from
\* the preloaded bundle or from the base database when it is not cached
CacheAccountOf(st, a) ==
    IF a \in DOMAIN st.cache THEN st.cache[a]
    ELSE IF st.preloaded /\ a \in DOMAIN st.bundle
    THEN LET b == st.bundle[a]
         IN  [exists |-> b.info.some, info |-> b.info.info,
              storage |-> [k \in DOMAIN b.storage |-> b.storage[k].present_value],
              status |-> b.status]
    ELSE IF a \notin DOMAIN st.base
    THEN [exists |-> FALSE, info |-> AccountInfoDefault, storage |-> EmptyMap,
          status |-> "LoadedNotExisting"]
    ELSE IF InfoIsEmpty(st.base[a].info)
    THEN [exists |-> TRUE, info |-> st.base[a].info, storage |-> EmptyMap,
          status |-> "LoadedEmptyEIP161"]
    ELSE [exists |-> TRUE, info |-> st.base[a].info, storage |-> EmptyMap,
          status |-> "Loaded"]

\* The info the machine gives an account it loads as not existing
\* (Account::new_not_existing) comes from the revm build the tool is linked
\* with, which the sources do not pin: its code object is either present and
\* empty or absent.  The build is fixed for the whole of a run.
VARIABLE not_existing_code

NotExistingCodes == {NoCode, SomeCode(<<>>)}

\* the account info the machine sees (Account::new_not_existing when absent)
InfoOf(st, a) ==
    LET c == CacheAccountOf(st, a)
    IN  IF c.exists THEN c.info
        ELSE [AccountInfoDefault EXCEPT !.code = not_existing_code]

\* statuses whose storage is wholly in memory (AccountStatus::is_storage_known)
StorageKnown(status) ==
    status \in {"LoadedNotExisting", "InMemoryChange", "Destroyed",
                "DestroyedChanged", "DestroyedAgain"}

\* State::storage: the cached slot, else zero when the storage is known,
\* else the base database's slot
SlotOf(st, a, k) ==
    LET c == CacheAccountOf(st, a)
    IN  IF ~c.exists THEN 0
        ELSE IF k \in DOMAIN c.storage THEN c.storage[k]
        ELSE IF StorageKnown(c.status) THEN 0
        ELSE IF a \in DOMAIN st.base /\ k \in DOMAIN st.base[a].storage
        THEN st.base[a].storage[k]
        ELSE 0

(***************************************************************************)
(* The virtual machine: evm.transact() (utils.rs:233).                     *)
(*                                                                         *)
(* Transact(st, env, tx) reads the working state and returns either an     *)
(* EVM error or an outcome together with the touched accounts (revm's      *)
(* ResultAndState).  The program of a called contract is chosen by the     *)
(* first byte of its code:                                                 *)
(*    0x42  return the block timestamp followed by the rest of the code    *)
(*    0x55  write slot 0 := call value and slot 1 := block timestamp       *)
(*    0xf0  deploy a contract (the rest of the code) at POOL_ADDR, forward *)
(*          the call value to it and write slot 0 := call value            *)
(*    0xf1  call STAKING_ADDR with value zero                              *)
(*    0xf2  forward the call value to the externally owned EOA_ADDR        *)
(*    0xf3  return the rest of the code as output                          *)
(*    0xfd  revert with the rest of the code as output                     *)
(*    0xfe  halt (invalid opcode)                                          *)
(*    else  stop                                                           *)
(***************************************************************************)
OP_TIMESTAMP == 66
OP_SSTORE == 85
OP_CREATE == 240
OP_CALL == 241
OP_TRANSFER == 242
OP_RETURN == 243
OP_REVERT == 253
OP_INVALID == 254

GAS_USED == 21000

Success(output) ==
    [tag |-> "Success", gas_used |-> GAS_USED, output |-> output, reason |-> "",
     logs |-> <<>>]
Revert(output) ==
    [tag |-> "Revert", gas_used |-> GAS_USED, output |-> output, reason |-> "",
     logs |-> <<>>]
Halt(reason) ==
    [tag |-> "Halt", gas_used |-> GAS_USED, output |-> <<>>, reason |-> reason,
     logs |-> <<>>]

\* ExecutionResult::is_success
is_success(r) == r.tag = "Success"

(***************************************************************************)
(* The Outcome Classifier: analyze_txn_result (utils.rs:141-187).  The     *)
(* string it builds is kept as its parts: the leading message, the gas     *)
(* used, the selector and its classification when the output has four      *)
(* bytes, the hex text of the bytes after the selector when there are any. *)
(***************************************************************************)
NoText == [some |-> FALSE, text |-> <<>>]
SomeText(t) == [some |-> TRUE, text |-> t]
NoGas == [some |-> FALSE, value |-> 0]
SomeGas(g) == [some |-> TRUE, value |-> g]

\* the match of lines 149-159
ErrorSelectors ==
    << <<<<73, 253, 54, 242>>, "OnlySystemCaller">>,
       <<<<151, 184, 131, 84>>, "UnknownParam">>,
       <<<<10, 90, 96, 65>>, "InvalidValue">>,
       <<<<17, 108, 100, 168>>, "OnlyCoinbase">>,
       <<<<131, 241, 177, 211>>, "OnlyZeroGasPrice">>,
       <<<<242, 44, 67, 144>>, "OnlySystemContract">>,
       <<<<8, 195, 121, 160>>, "Error(string)">>,
       <<<<78, 72, 123, 113>>, "Panic(uint256)">> >>

SelectorName(selector) ==
    IF \E i \in 1..Len(ErrorSelectors) : ErrorSelectors[i][1] = selector
    THEN ErrorSelectors[CHOOSE i \in 1..Len(ErrorSelectors) :
                            ErrorSelectors[i][1] = selector][2]
    ELSE "Unknown error selector"

\* output.get(0..4)
SelectorOf(output) ==
    IF Len(output) >= 4 THEN SomeText(SubSeq(output, 1, 4)) ELSE NoText

analyze_txn_result(result) ==
    CASE result.tag = "Revert" ->
            LET selector == SelectorOf(result.output)
            IN  [msg |-> "Revert with gas used",
                 gas |-> SomeGas(result.gas_used),
                 selector |-> IF selector.some
                              THEN SomeText(HexEncode(selector.text)) ELSE NoText,
                 class |-> IF selector.some
                           THEN SomeText(<<SelectorName(selector.text)>>) ELSE NoText,
                 data |-> IF Len(result.output) > 4
                          THEN SomeText(HexEncode(SubSeq(result.output, 5,
                                                         Len(result.output))))
                          ELSE NoText]
      [] result.tag = "Success" ->
            [msg |-> "Success with gas used", gas |-> SomeGas(result.gas_used),
             selector |-> NoText, class |-> NoText, data |-> NoText]
      [] OTHER ->
            [msg |-> "Halt", gas |-> SomeGas(result.gas_used),
             selector |-> NoText, class |-> NoText,
             data |-> SomeText(<<result.reason>>)]

\* no outcome, nothing analysed
NoAnalysis ==
    [msg |-> "", gas |-> NoGas, selector |-> NoText, class |-> NoText, data |-> NoText]

\* a touched account of the machine's output state
Touched(info) == [info |-> info, storage |-> EmptyMap, created |-> FALSE]
TouchedWith(info, storage) == [info |-> info, storage |-> storage, created |-> FALSE]
Created(info) == [info |-> info, storage |-> EmptyMap, created |-> TRUE]

SlotWrite(original, present) ==
    [original_value |-> original, present_value |-> present]

VmOk(result, state) == [ok |-> TRUE, error |-> "", result |-> result, state |-> state]
VmErr(error) == [ok |-> FALSE, error |-> error, result |-> Halt(error), state |-> EmptyMap]

CodeBytes(info) == IF info.code.some THEN info.code.bytes ELSE <<>>

\* an account exists for the machine when it is present and not empty
Occupied(st, a) == CacheAccountOf(st, a).exists /\ ~InfoIsEmpty(InfoOf(st, a))

\* what every executed transaction touches: the caller, whose nonce is
\* bumped, and the block's beneficiary, which is paid nothing (gas price 0)
TouchedAlways(st, tx) ==
    Put(Put(EmptyMap, COINBASE, Touched(InfoOf(st, COINBASE))),
        tx.caller, Touched([InfoOf(st, tx.caller) EXCEPT !.nonce = @ + 1]))

\* the touched accounts of a call that ran to completion: the value has
\* moved from the caller to the target
TouchedByTransfer(st, tx, target) ==
    LET state == TouchedAlways(st, tx)
        paid == [state EXCEPT ![tx.caller].info.balance = @ - tx.value]
    IN  Put(paid, target,
            Touched([InfoOf(st, target) EXCEPT !.balance = @ + tx.value]))

\* the program of the called contract, run after the value has moved
RunProgram(st, env, tx, target, code) ==
    LET op == IF code = <<>> THEN 0 ELSE code[1]
        state == TouchedByTransfer(st, tx, target)
    IN  CASE op = OP_SSTORE ->
               VmOk(Success(<<>>),
                    [state EXCEPT ![target].storage =
                        Put(Put(EmptyMap, 0, SlotWrite(SlotOf(st, target, 0), tx.value)),
                            1, SlotWrite(SlotOf(st, target, 1), env.timestamp))])
          [] op = OP_CREATE /\ ~Occupied(st, POOL_ADDR) ->
               VmOk(Success(<<>>),
                    Put([state EXCEPT ![target].info.balance = @ - tx.value,
                                      ![target].info.nonce = @ + 1,
                                      ![target].storage =
                                          Put(EmptyMap, 0,
                                              SlotWrite(SlotOf(st, target, 0), tx.value))],
                        POOL_ADDR,
                        Created([balance |-> U256Add(InfoOf(st, POOL_ADDR).balance, tx.value),
                                 nonce |-> 1,
                                 code_hash |-> Keccak(Tail(code)),
                                 code |-> SomeCode(Tail(code))])))
          [] op = OP_CALL /\ target # STAKING_ADDR ->
               VmOk(Success(<<>>),
                    Put(state, STAKING_ADDR, Touched(InfoOf(st, STAKING_ADDR))))
          [] op = OP_TRANSFER ->
               VmOk(Success(<<>>),
                    Put([state EXCEPT ![target].info.balance = @ - tx.value],
                        EOA_ADDR,
                        Touched([InfoOf(st, EOA_ADDR)
                                 EXCEPT !.balance = U256Add(@, tx.value)])))
          [] op = OP_RETURN -> VmOk(Success(Tail(code)), state)
          [] op = OP_TIMESTAMP ->
               VmOk(Success(<<env.timestamp>> \o Tail(code)), state)
          [] OTHER -> VmOk(Success(<<>>), state)

\* a call transaction
TransactCall(st, env, tx) ==
    LET target == tx.transact_to.addr
        code == CodeBytes(InfoOf(st, target))
        op == IF code = <<>> THEN 0 ELSE code[1]
    IN  IF InfoOf(st, target).balance + tx.value >= U256_MOD
        THEN VmOk(Halt("OverflowPayment"), TouchedAlways(st, tx))
        ELSE IF op = OP_REVERT
        THEN VmOk(Revert(Tail(code)), TouchedAlways(st, tx))
        ELSE IF op = OP_INVALID
        THEN VmOk(Halt("InvalidFEOpcode"), TouchedAlways(st, tx))
        ELSE RunProgram(st, env, tx, target, code)

\* a create transaction: the payload is deployed at POOL_ADDR
TransactCreate(st, env, tx) ==
    IF Occupied(st, POOL_ADDR)
    THEN VmOk(Halt("CreateCollision"), TouchedAlways(st, tx))
    ELSE VmOk(Success(tx.data),
              Put([TouchedAlways(st, tx) EXCEPT ![tx.caller].info.balance = @ - tx.value],
                  POOL_ADDR,
                  Created([balance |-> U256Add(InfoOf(st, POOL_ADDR).balance, tx.value),
                           nonce |-> 1,
                           code_hash |-> Keccak(tx.data),
                           code |-> SomeCode(tx.data)])))

\* evm.transact(): the caller must afford the value (the gas price is zero)
Transact(st, env, tx) ==
    IF InfoOf(st, tx.caller).balance < tx.value
    THEN VmErr("LackOfFundForMaxFee")
    ELSE IF tx.transact_to.kind = "Create"
    THEN TransactCreate(st, env, tx)
    ELSE TransactCall(st, env, tx)

(***************************************************************************)
(* evm.db_mut().commit(state): State::commit = CacheState::apply_evm_state *)
(* followed by State::apply_transition (utils.rs:235).                     *)
(***************************************************************************)
\* the slots of a touched account whose value changed (slot.is_changed())
ChangedStorage(acc) ==
    [k \in {x \in DOMAIN acc.storage :
                acc.storage[x].original_value # acc.storage[x].present_value}
        |-> acc.storage[k]]

PresentValues(storage) == [k \in DOMAIN storage |-> storage[k].present_value]

PreviousInfo(prev) == IF prev.exists THEN SomeInfo(prev.info) ELSE NoInfo

\* CacheAccount::newly_created
NewlyCreatedStatus(status) ==
    IF status \in {"Destroyed", "DestroyedAgain", "DestroyedChanged"}
    THEN "DestroyedChanged"
    ELSE "InMemoryChange"

\* CacheAccount::change
ChangedStatus(status) ==
    CASE status \in {"LoadedNotExisting", "LoadedEmptyEIP161", "InMemoryChange"} ->
            "InMemoryChange"
      [] status \in {"Loaded", "Changed"} -> "Changed"
      [] OTHER -> "DestroyedChanged"

\* CacheAccount::touch_empty_eip161
TouchedEmptyStatus(status) ==
    CASE status = "LoadedNotExisting" -> "LoadedNotExisting"
      [] status \in {"DestroyedAgain", "DestroyedChanged"} -> "DestroyedAgain"
      [] OTHER -> "Destroyed"

\* CacheState::apply_account_state, the cache entry after the commit
CommittedAccount(prev, acc) ==
    IF acc.created
    THEN [exists |-> TRUE, info |-> acc.info,
          storage |-> PresentValues(ChangedStorage(acc)),
          status |-> NewlyCreatedStatus(prev.status)]
    ELSE IF InfoIsEmpty(acc.info)
    THEN [exists |-> FALSE, info |-> AccountInfoDefault, storage |-> EmptyMap,
          status |-> TouchedEmptyStatus(prev.status)]
    ELSE [exists |-> TRUE, info |-> acc.info,
          storage |-> Extend(prev.storage, PresentValues(ChangedStorage(acc))),
          status |-> ChangedStatus(prev.status)]

\* whether the commit of a touched account yields a transition: touching an
\* empty account that never existed, or is already destroyed, yields none
YieldsTransition(prev, acc) ==
    \/ acc.created
    \/ ~InfoIsEmpty(acc.info)
    \/ prev.status \notin {"LoadedNotExisting", "Destroyed", "DestroyedAgain"}

\* the TransitionAccount of a committed account
TransitionOf(prev, acc) ==
    IF ~acc.created /\ InfoIsEmpty(acc.info)
    THEN [info |-> NoInfo, previous_info |-> PreviousInfo(prev),
          storage |-> EmptyMap, status |-> TouchedEmptyStatus(prev.status),
          storage_was_destroyed |-> TRUE]
    ELSE [info |-> SomeInfo(acc.info), previous_info |-> PreviousInfo(prev),
          storage |-> ChangedStorage(acc),
          status |-> CommittedAccount(prev, acc).status,
          storage_was_destroyed |-> FALSE]

\* TransitionAccount::update: a later transition of the same address; a slot
\* that is back at its original value leaves the transition's storage
UpdateTransition(old, new) ==
    LET keep == {k \in DOMAIN old.storage \cup DOMAIN new.storage :
                    \/ k \notin DOMAIN old.storage
                    \/ k \notin DOMAIN new.storage
                    \/ old.storage[k].original_value # new.storage[k].present_value}
        merged == [k \in keep |->
                    IF k \notin DOMAIN new.storage THEN old.storage[k]
                    ELSE IF k \notin DOMAIN old.storage THEN new.storage[k]
                    ELSE SlotWrite(old.storage[k].original_value,
                                   new.storage[k].present_value)]
    IN  [info |-> new.info, previous_info |-> old.previous_info,
         storage |-> IF new.storage_was_destroyed THEN new.storage ELSE merged,
         status |-> new.status,
         storage_was_destroyed |-> old.storage_was_destroyed \/ new.storage_was_destroyed]

\* TransitionState::add_transitions, for one address
AddTransition(transitions, a, t) ==
    IF a \in DOMAIN transitions
    THEN Put(transitions, a, UpdateTransition(transitions[a], t))
    ELSE Put(transitions, a, t)

RECURSIVE CommitAccounts(_, _, _)
CommitAccounts(st, evm_state, todo) ==
    IF todo = {} THEN st
    ELSE LET a == CHOOSE x \in todo : TRUE
             prev == CacheAccountOf(st, a)
             acc == evm_state[a]
             cached == [st EXCEPT !.cache = Put(st.cache, a, CommittedAccount(prev, acc))]
             next == IF st.track /\ YieldsTransition(prev, acc)
                     THEN [cached EXCEPT !.transitions =
                              AddTransition(st.transitions, a, TransitionOf(prev, acc))]
                     ELSE cached
         IN  CommitAccounts(next, evm_state, todo \ {a})

\* State::commit
Commit(st, evm_state) == CommitAccounts(st, evm_state, DOMAIN evm_state)

(***************************************************************************)
(* evm.db_mut().merge_transitions(BundleRetention::Reverts) and            *)
(* take_bundle() (utils.rs:244-246).                                       *)
(***************************************************************************)
\* TransitionAccount::present_bundle_account
PresentBundleAccount(t) ==
    [info |-> t.info, original_info |-> t.previous_info, storage |-> t.storage,
     status |-> t.status]

\* BundleAccount::update_and_create_revert, the account it leaves
UpdateBundleAccount(b, t) ==
    [info |-> t.info, original_info |-> b.original_info,
     storage |-> IF t.storage_was_destroyed THEN t.storage
                 ELSE Extend(b.storage, t.storage),
     status |-> t.status]

\* BundleState::apply_transitions_and_create_reverts
ApplyTransitions(bundle, transitions) ==
    [a \in DOMAIN bundle \cup DOMAIN transitions |->
        IF a \notin DOMAIN transitions THEN bundle[a]
        ELSE IF a \in DOMAIN bundle THEN UpdateBundleAccount(bundle[a], transitions[a])
        ELSE PresentBundleAccount(transitions[a])]

\* State::merge_transitions: a no-op when transitions are not recorded
MergeTransitions(st) ==
    IF st.track
    THEN [st EXCEPT !.bundle = ApplyTransitions(st.bundle, st.transitions),
                    !.transitions = EmptyMap]
    ELSE st

(***************************************************************************)
(* Observable world state: what a reader of a working state, or of a       *)
(* database, sees at every address (absent = no account).                  *)
(***************************************************************************)
AllAddrs == ContractAddrs \cup {SYSTEM_CALLER, COINBASE, POOL_ADDR, EOA_ADDR}

ViewOfState(st) ==
    [a \in AllAddrs |->
        [exists |-> CacheAccountOf(st, a).exists,
         info |-> InfoOf(st, a),
         storage |-> [k \in Slots |-> SlotOf(st, a, k)]]]

ViewOfDb(db) == ViewOfState(StateWithBundleUpdate(db))

\* a state delta committed by hand into a database: an entry without info
\* removes the account, an entry with info replaces the info and writes the
\* present value of every changed slot
CommitBundle(db, bundle) ==
    [a \in (DOMAIN db \cup {x \in DOMAIN bundle : bundle[x].info.some})
            \ {x \in DOMAIN bundle : ~bundle[x].info.some} |->
        IF a \notin DOMAIN bundle THEN db[a]
        ELSE [info |-> bundle[a].info.info,
              storage |-> Extend(IF a \in DOMAIN db /\ ~StorageKnown(bundle[a].status)
                                 THEN db[a].storage
                                 ELSE EmptyMap,
                                 PresentValues(bundle[a].storage))]]

(***************************************************************************)
(* The Replay Verifier, its functions (verify.rs).                         *)
(*                                                                         *)
(* genesis.json is a map from address text to an entry of optional         *)
(* balance, nonce, code and storage.  Address text is kept at the length   *)
(* of the address names of this module (nine digits for forty).            *)
(***************************************************************************)
\* the file on disk: missing, not JSON of the expected shape, or an alloc map
NoGenesisFile == [exists |-> FALSE, parses |-> FALSE, alloc |-> EmptyMap]
BadGenesisFile == [exists |-> TRUE, parses |-> FALSE, alloc |-> EmptyMap]
GenesisJson(alloc) == [exists |-> TRUE, parses |-> TRUE, alloc |-> alloc]

\* Option<u64>, Option<HashMap<String, String>>
NoNonce == [some |-> FALSE, value |-> 0]
SomeNonce(n) == [some |-> TRUE, value |-> n]
NoStorage == [some |-> FALSE, map |-> EmptyMap]
SomeStorage(m) == [some |-> TRUE, map |-> m]

AllocEntry(balance, nonce, code, storage) ==
    [balance |-> balance, nonce |-> nonce, code |-> code, storage |-> storage]

\* the digits of the addresses a snapshot of this module can name
AddressText ==
    (VALIDATOR_MANAGER_ADDR :> <<"1", "6", "2", "5", "F", "2", "0", "0", "1">>)
        @@ (GENESIS_ADDR :> <<"1", "6", "2", "5", "F", "0", "0", "0", "1">>)

OTHER_ADDR == "other"

\* format!("{:?}", address): 0x and the digits
DebugAddress(a) == <<"0", "x">> \o AddressText[a]

\* str::to_lowercase
ToLowercase(t) ==
    [i \in 1..Len(t) |->
        IF \E j \in 1..6 : UpperDigits[j] = t[i]
        THEN HexDigits[HexVal(t[i]) + 1]
        ELSE IF t[i] = "X" THEN "x" ELSE t[i]]

\* str::strip_prefix("0x").unwrap_or(s)
StripPrefix0x(t) ==
    IF Len(t) >= 2 /\ t[1] = "0" /\ t[2] = "x" THEN SubSeq(t, 3, Len(t)) ELSE t

\* addr_str.parse::<Address>(): hex digits of either case, 0x optional
ParseAddress(t) ==
    LET d == StripPrefix0x(t)
        known == {a \in DOMAIN AddressText : ToLowercase(AddressText[a]) = ToLowercase(d)}
    IN  [ok |-> /\ Len(d) = Len(AddressText[VALIDATOR_MANAGER_ADDR])
                /\ \A i \in 1..Len(d) : IsHexChar(d[i]),
         addr |-> IF known # {} THEN CHOOSE a \in known : TRUE ELSE OTHER_ADDR]

RECURSIVE HexNumber(_, _)
HexNumber(t, acc) ==
    IF t = <<>> THEN acc ELSE HexNumber(Tail(t), 16 * acc + HexVal(Head(t)))

\* parse_u256_hex: zero for the empty text and for text that is no number
parse_u256_hex(t) ==
    LET d == StripPrefix0x(t)
    IN  IF d = <<>> THEN 0
        ELSE IF (\A i \in 1..Len(d) : IsHexChar(d[i])) /\ HexNumber(d, 0) < U256_MOD
        THEN HexNumber(d, 0)
        ELSE 0

\* lines 96-120: the account info of an entry (its code must be hex)
AllocAccountInfo(entry) ==
    LET code == IF entry.code.some THEN HexDecode(StripPrefix0x(entry.code.text))
                ELSE <<>>
    IN  [balance |-> IF entry.balance.some THEN parse_u256_hex(entry.balance.text) ELSE 0,
         nonce |-> IF entry.nonce.some THEN entry.nonce.value ELSE 0,
         code_hash |-> Keccak(code),
         code |-> SomeCode(code)]

\* lines 125-132: db.insert_account_storage for every pair of the entry
RECURSIVE InsertStorage(_, _, _, _)
InsertStorage(db, addr, map, todo) ==
    IF todo = {} THEN db
    ELSE LET k == CHOOSE x \in todo : TRUE
             account == [db[addr] EXCEPT
                            !.storage = Put(@, parse_u256_hex(k), parse_u256_hex(map[k]))]
         IN  InsertStorage(Put(db, addr, account), addr, map, todo \ {k})

\* what stops the loop of lines 92-133 at an entry: an address that does not
\* parse is an error, code that is no hex panics
EntryFault(key, entry) ==
    IF ~ParseAddress(key).ok THEN "Err"
    ELSE IF entry.code.some /\ ~HexDecodable(StripPrefix0x(entry.code.text))
    THEN "Panic"
    ELSE "None"

\* the loop visits the keys of a HashMap, in an order the map decides
Orders(S) ==
    {q \in [1..Cardinality(S) -> S] : \A i, j \in 1..Cardinality(S) : q[i] = q[j] => i = j}

RECURSIVE LoadFault(_, _)
LoadFault(alloc, order) ==
    IF order = <<>> THEN "None"
    ELSE IF EntryFault(Head(order), alloc[Head(order)]) # "None"
    THEN EntryFault(Head(order), alloc[Head(order)])
    ELSE LoadFault(alloc, Tail(order))

RECURSIVE Rehydrate(_, _, _)
Rehydrate(db, alloc, order) ==
    IF order = <<>> THEN db
    ELSE LET entry == alloc[Head(order)]
             addr == ParseAddress(Head(order)).addr
             with_info == insert_account_info(db, addr, AllocAccountInfo(entry))
             with_storage == IF entry.storage.some
                             THEN InsertStorage(with_info, addr, entry.storage.map,
                                                DOMAIN entry.storage.map)
                             ELSE with_info
         IN  Rehydrate(with_storage, alloc, Tail(order))

\* a check that finds the contract in every snapshot
HasVmAlways(alloc) == TRUE

\* lines 136-139: some key, lower-cased, is the lower-cased debug text of the
\* ValidatorManagement address
HasVm(alloc) ==
    \E k \in DOMAIN alloc :
        ToLowercase(k) = ToLowercase(DebugAddress(VALIDATOR_MANAGER_ADDR))

\* getActiveValidatorsCall{}.abi_encode(): opaque to the tool
GetActiveValidatorsCallData == <<"getActiveValidators">>

\* genesis.rs:614-617
call_get_active_validators ==
    new_system_call_txn(VALIDATOR_MANAGER_ADDR, GetActiveValidatorsCallData)

\* The expected schema: a count followed by that many records of RECORD_WIDTH
\* bytes (validator, voting power, network addresses); a record of another
\* width is the record of another interface version.
RECORD_WIDTH == 3

\* getActiveValidatorsCall::abi_decode_returns
AbiDecodable(output) ==
    /\ Len(output) >= 1
    /\ Len(output) = 1 + RECORD_WIDTH * output[1]

AbiDecode(output) ==
    [i \in 1..output[1] |->
        [validator |-> output[RECORD_WIDTH * i - 1],
         votingPower |-> output[RECORD_WIDTH * i],
         networkAddresses |-> output[RECORD_WIDTH * i + 1]]]

\* lines 210-216
ValidatorInfo(v) ==
    [address |-> v.validator, voting_power |-> v.votingPower,
     has_network_addresses |-> v.networkAddresses # 0]

\* one error string of a report, or one line of the log: message and payload
Diagnostic(msg, data) ==
    [msg |-> msg, gas |-> NoGas, selector |-> NoText, class |-> NoText,
     data |-> SomeText(data)]

\* a report whose count is left at zero
VerifyResultNoCount(success, validators, errors) ==
    [success |-> success, validator_count |-> 0,
     validators |-> validators, errors |-> errors]

VerifyResult(success, validators, errors) ==
    [success |-> success, validator_count |-> Len(validators),
     validators |-> validators, errors |-> errors]

\* lines 141-151
MissingContractResult ==
    VerifyResult(FALSE, <<>>,
        <<Diagnostic("ValidatorManagement contract not found at expected address",
                     DebugAddress(VALIDATOR_MANAGER_ADDR))>>)

\* a verifier that takes every outcome for a success
ProcessAsSuccess(result) == VerifyResult(TRUE, <<>>, <<>>)

\* process_execution_result, the report it returns
process_execution_result(result) ==
    CASE result.tag = "Success" ->
            IF AbiDecodable(result.output)
            THEN LET decoded == AbiDecode(result.output)
                 IN  VerifyResult(TRUE,
                                  [i \in 1..Len(decoded) |-> ValidatorInfo(decoded[i])],
                                  <<>>)
            ELSE VerifyResult(FALSE, <<>>,
                    <<Diagnostic("ABI decode failed", <<"Overrun">>),
                      Diagnostic("This likely means the genesis.json was created with old contracts",
                                 <<>>)>>)
      [] result.tag = "Revert" ->
            VerifyResult(FALSE, <<>>,
                <<Diagnostic("Call reverted", HexEncode(result.output))>>)
      [] OTHER ->
            VerifyResult(FALSE, <<>>, <<Diagnostic("Call halted", <<result.reason>>)>>)

\* The raw output is logged up to OUTPUT_PREFIX_LEN bytes, and only when it
\* is longer than that (64 in the source; outputs here have at most 5 bytes).
OUTPUT_PREFIX_LEN == 2

\* process_execution_result, the lines it logs besides the messages
ProcessLog(result) ==
    CASE result.tag = "Success" ->
            IF ~AbiDecodable(result.output) /\ Len(result.output) > OUTPUT_PREFIX_LEN
            THEN <<Diagnostic("First 64 bytes of output",
                              HexEncode(SubSeq(result.output, 1, OUTPUT_PREFIX_LEN)))>>
            ELSE <<>>
      [] result.tag = "Revert" ->
            <<Diagnostic("Revert output", HexEncode(result.output))>>
      [] OTHER -> <<Diagnostic("getActiveValidators() call halted", <<result.reason>>)>>

\* Option<ExecutionResult>
NoOutcome == [some |-> FALSE, result |-> Halt("")]
SomeOutcome(r) == [some |-> TRUE, result |-> r]

\* a command that succeeds whenever the core returns a report
RunVerifyLax(kind, report) == kind

\* run_verify (main.rs:180-192): the error of the core is passed on by `?`, a
\* report is printed, and the command is Ok only for a report of success
run_verify(kind, report) ==
    IF kind # "Ok" THEN kind
    ELSE IF report.success THEN "Ok" ELSE "Err"

\* what a run of the verify command ends with: what verify_genesis_file
\* returned, Ok(report), Err or a panic, what run_verify made of it (exit),
\* the calls of the engine the run made, the outcome of its query and the
\* lines it logged
RunEnd(kind, report, reason, calls, outcome, log) ==
    [kind |-> kind, report |-> report, reason |-> reason, calls |-> calls,
     outcome |-> outcome, log |-> log, exit |-> run_verify(kind, report)]

NoReport == VerifyResult(FALSE, <<>>, <<>>)

VerifyIdle ==
    [phase |-> "idle", file |-> NoGenesisFile, calls |-> <<>>, runs |-> <<>>]

(***************************************************************************)
(* State of the model.                                                     *)
(***************************************************************************)
VARIABLES
    files,          \* byte_code_dir: contract name -> hex file
    config,         \* the GenesisConfig (chain id, validators)
    clock,          \* SystemTime::now() in seconds
    pc,             \* position of the run
    db,             \* the seeded InMemoryDB (the base view of the engine)
    eng,            \* execute_revm_sequential: its locals and its return
    bundle_state,   \* genesis_generate's bundle_state
    genesis_state,  \* genesis_generate's genesis_state (the merged snapshot)
    ret,            \* the value genesis_generate returns
    artifacts,      \* output_dir: the three files written so far
    ver             \* verify_genesis_file: its input, its locals and its returns

vars == <<files, config, clock, pc, db, eng, bundle_state, genesis_state, ret, artifacts,
          ver, not_existing_code>>

(***************************************************************************)
(* execute_revm_sequential (utils.rs:192-247).                             *)
(***************************************************************************)
EngineIdle ==
    [phase |-> "idle", st |-> StateWithBundleUpdate(EmptyMap), pre_bundle |-> NoBundle,
     env |-> prepare_env(0, 0), txs |-> <<>>, i |-> 0, results |-> <<>>,
     log |-> <<>>, bundle |-> EmptyMap, error |-> ""]

\* the call: the state and the machine are built, the loop is about to start
EngineCall(base, env, txs, pre_bundle) ==
    [phase |-> "loop", st |-> BuildState(base, pre_bundle), pre_bundle |-> pre_bundle,
     env |-> env, txs |-> txs, i |-> 0, results |-> <<>>, log |-> <<>>,
     bundle |-> EmptyMap, error |-> ""]

\* a loop that walks the list from its end
NextTxReversed(e) == e.txs[Len(e.txs) - e.i]

\* a loop that submits the first transaction in every iteration
NextTxFirst(e) == e.txs[1]

\* for (i, tx) in txs.iter().enumerate(): the transaction of iteration i + 1
NextTx(e) == e.txs[e.i + 1]

\* a loop that forgets to commit
StateAfterTxNoCommit(st, r) == st

\* a commit that also writes the touched accounts through to the base view
StateAfterTxWriteThrough(st, r) ==
    [Commit(st, r.state) EXCEPT
        !.base = [a \in DOMAIN st.base |->
                     IF a \in DOMAIN r.state
                     THEN [st.base[a] EXCEPT !.info = r.state[a].info]
                     ELSE st.base[a]]]

\* evm.db_mut().commit(result_and_state.state)
StateAfterTx(st, r) == Commit(st, r.state)

\* one iteration of the loop: transact (an EVM error returns at once),
\* commit, push the outcome
EngineStep ==
    /\ eng.phase = "loop"
    /\ eng.i < Len(eng.txs)
    /\ LET tx == NextTx(eng)
           r == Transact(eng.st, eng.env, tx)
           seen == [tx |-> tx, view |-> ViewOfState(eng.st),
                    touched |-> DOMAIN r.state,
                    analysis |-> analyze_txn_result(r.result)]
       IN  eng' = IF r.ok
                  THEN [eng EXCEPT !.st = StateAfterTx(eng.st, r),
                                   !.results = Append(@, r.result),
                                   !.log = Append(@, seen),
                                   !.i = @ + 1]
                  ELSE [eng EXCEPT !.phase = "error", !.error = r.error,
                                   !.log = Append(@, [seen EXCEPT !.analysis = NoAnalysis])]
    /\ UNCHANGED <<not_existing_code, ver, files, config, clock, pc, db, bundle_state, genesis_state, ret, artifacts>>

\* after the loop: merge_transitions(Reverts), Ok((results, take_bundle()));
\* eng.st stays as the loop left it (the machine is dropped with the call)
EngineReturn ==
    /\ eng.phase = "loop"
    /\ eng.i = Len(eng.txs)
    /\ eng' = [eng EXCEPT !.phase = "returned",
                          !.bundle = MergeTransitions(eng.st).bundle]
    /\ UNCHANGED <<not_existing_code, ver, files, config, clock, pc, db, bundle_state, genesis_state, ret, artifacts>>

(***************************************************************************)
(* genesis_generate (execute.rs:133-262).                                  *)
(***************************************************************************)
\* Option<file contents> of the output directory
NotWritten == [written |-> FALSE, content |-> EmptyMap]
Written(content) == [written |-> TRUE, content |-> content]

NoArtifacts ==
    [bundle_state |-> NotWritten, genesis_accounts |-> NotWritten,
     genesis_contracts |-> NotWritten]

\* lines 140-150: total stake, seeding, environment, the transaction list and
\* the call of the engine; a missing bytecode file panics inside the seeder
GenerateStart ==
    /\ pc = "start"
    /\ IF DeployPanics(files)
       THEN /\ pc' = "panicked"
            /\ UNCHANGED <<db, eng>>
       ELSE LET total_stake == calculate_total_stake(config)
                seeded == deploy_bsc_style(files, total_stake)
                env == prepare_env(config.chain_id, clock)
                txs == build_genesis_transactions(config)
            IN  /\ db' = seeded
                /\ eng' = EngineCall(seeded, env, txs, NoBundle)
                /\ pc' = "executing"
    /\ UNCHANGED <<not_existing_code, ver, files, config, clock, bundle_state, genesis_state, ret, artifacts>>

\* a check that lets every outcome pass
AllSucceededLax(result) == TRUE

\* the loop of lines 166-174: the first outcome that is not a success panics
AllSucceeded(result) == \A i \in 1..Len(result) : is_success(result[i])

\* lines 151-178: an engine error panics; ret is taken; the outcomes are checked
GenerateCheck ==
    /\ pc = "executing"
    /\ eng.phase \in {"returned", "error"}
    /\ IF eng.phase = "error"
       THEN /\ pc' = "panicked"
            /\ UNCHANGED <<bundle_state, ret>>
       ELSE /\ bundle_state' = eng.bundle
            /\ ret' = [db |-> db, bundle_state |-> eng.bundle]
            /\ pc' = IF AllSucceeded(eng.results) THEN "checked" ELSE "panicked"
    /\ UNCHANGED <<not_existing_code, ver, files, config, clock, db, eng, genesis_state, artifacts>>

\* lines 183-203: one snapshot entry per registry contract, code installed,
\* every other field the default, empty storage
SeededAccount(contract_name) ==
    [info |-> [AccountInfoDefault EXCEPT
                 !.code = SomeCode(extract_runtime_bytecode(files[contract_name].text))],
     storage |-> EmptyMap]

\* a snapshot that starts empty
SeededGenesisStateNone == EmptyMap

SeededGenesisState ==
    [a \in ContractAddrs |->
        SeededAccount(CONTRACTS[CHOOSE i \in 1..Len(CONTRACTS) : CONTRACTS[i][2] = a][1])]

\* a merge that keeps the funding account in the delta
RemoveNothing(bundle) == bundle

\* line 206: bundle_state.state.remove(&SYSTEM_CALLER)
RemoveSystemCaller(bundle) == Remove(bundle, SYSTEM_CALLER)

\* lines 181-212: the seeded snapshot, the funding account dropped from the
\* delta, bundle_state.json written (File::create(..).unwrap())
GenerateWriteBundle ==
    /\ pc = "checked"
    /\ genesis_state' = SeededGenesisState
    /\ bundle_state' = RemoveSystemCaller(bundle_state)
    /\ \E disk_ok \in BOOLEAN :
         IF disk_ok
         THEN /\ artifacts' = [artifacts EXCEPT !.bundle_state = Written(bundle_state')]
              /\ pc' = "bundle_written"
         ELSE /\ pc' = "panicked"
              /\ UNCHANGED artifacts
    /\ UNCHANGED <<not_existing_code, ver, files, config, clock, db, eng, ret>>

\* a merge that extends the storage of an existing entry and keeps its info
MergeEntryKeepInfo(gs, address, account) ==
    IF account.info.some
    THEN LET storage == PresentValues(account.storage)
         IN  IF address \in DOMAIN gs
             THEN Put(gs, address, [info |-> gs[address].info,
                                    storage |-> Extend(gs[address].storage, storage)])
             ELSE Put(gs, address, [info |-> account.info.info, storage |-> storage])
    ELSE gs

\* a merge that updates existing entries and inserts none
MergeEntryOnlyExisting(gs, address, account) ==
    IF account.info.some /\ address \in DOMAIN gs
    THEN Put(gs, address, [info |-> account.info.info,
                           storage |-> Extend(gs[address].storage,
                                              PresentValues(account.storage))])
    ELSE gs

\* a merge that takes the info of a delta entry and leaves its storage out
MergeEntryInfoOnly(gs, address, account) ==
    IF account.info.some
    THEN Put(gs, address,
             [info |-> account.info.info,
              storage |-> IF address \in DOMAIN gs THEN gs[address].storage
                          ELSE EmptyMap])
    ELSE gs

\* lines 221-235: one delta entry merged into the snapshot
MergeEntry(gs, address, account) ==
    IF account.info.some
    THEN LET storage == PresentValues(account.storage)
         IN  IF address \in DOMAIN gs
             THEN Put(gs, address, [info |-> account.info.info,
                                    storage |-> Extend(gs[address].storage, storage)])
             ELSE Put(gs, address, [info |-> account.info.info, storage |-> storage])
    ELSE gs

\* the loop of line 219 over the entries of the delta
RECURSIVE MergeBundle(_, _)
MergeBundle(gs, bundle) ==
    IF DOMAIN bundle = {} THEN gs
    ELSE LET address == CHOOSE a \in DOMAIN bundle : TRUE
         IN  MergeBundle(MergeEntry(gs, address, bundle[address]), Remove(bundle, address))

\* lines 219-242: the merge, genesis_accounts.json written
GenerateWriteAccounts ==
    /\ pc = "bundle_written"
    /\ genesis_state' = MergeBundle(genesis_state, bundle_state)
    /\ \E disk_ok \in BOOLEAN :
         IF disk_ok
         THEN /\ artifacts' = [artifacts EXCEPT !.genesis_accounts = Written(genesis_state')]
              /\ pc' = "accounts_written"
         ELSE /\ pc' = "panicked"
              /\ UNCHANGED artifacts
    /\ UNCHANGED <<not_existing_code, ver, files, config, clock, db, eng, bundle_state, ret>>

\* a filter on the length of the code instead of its presence
ContractsJsonNonEmpty(gs) ==
    [a \in {x \in DOMAIN gs : gs[x].info.code.some /\ gs[x].info.code.bytes # <<>>}
        |-> gs[a].info.code.bytes]

\* lines 245-254: the entries whose info has a code object, with its bytes
ContractsJson(gs) ==
    [a \in {x \in DOMAIN gs : gs[x].info.code.some} |-> gs[a].info.code.bytes]

\* lines 244-261: genesis_contracts.json written, ret returned
GenerateWriteContracts ==
    /\ pc = "accounts_written"
    /\ \E disk_ok \in BOOLEAN :
         IF disk_ok
         THEN /\ artifacts' = [artifacts EXCEPT
                                 !.genesis_contracts = Written(ContractsJson(genesis_state))]
              /\ pc' = "done"
         ELSE /\ pc' = "panicked"
              /\ UNCHANGED artifacts
    /\ UNCHANGED <<not_existing_code, ver, files, config, clock, db, eng, bundle_state, genesis_state, ret>>

(***************************************************************************)
(* Inputs.                                                                 *)
(***************************************************************************)
\* "00": a contract that stops
DefaultFile == FileOf(<<"0", "0">>)

\* the bytecode files the Genesis contract is tried with
GenesisFiles ==
    { NoFile,
      FileOf(<<"z", "z">>),
      FileOf(<<"5", "5", "0">>),
      FileOf(<<>>),
      FileOf(<<" ", "5", "5", "\n">>),
      FileOf(<<"F", "0", "6", "0", "0", "1">>),
      FileOf(<<"f", "1">>),
      FileOf(<<"f", "2">>),
      FileOf(<<"f", "d", "4", "9", "f", "d", "3", "6", "f", "2">>),
      FileOf(<<"f", "e">>) }

\* the bytecode files the Staking contract is tried with
StakingFiles == { NoFile, FileOf(<<>>), FileOf(<<"0", "x">>), DefaultFile }

FilesWith(genesis_file, staking_file) ==
    [n \in ContractNames |->
        IF n = "Genesis" THEN genesis_file
        ELSE IF n = "Staking" THEN staking_file
        ELSE DefaultFile]

\* stake amounts: small ones, and one that stands for an amount near 2^256
StakeAmounts == {0, 1, 22}

RECURSIVE SeqsUpTo(_, _)
SeqsUpTo(S, n) ==
    IF n = 0 THEN {<<>>}
    ELSE LET shorter == SeqsUpTo(S, n - 1)
         IN  shorter \cup {Append(q, x) : q \in {y \in shorter : Len(y) = n - 1}, x \in S}

Configs ==
    {[chain_id |-> 1, validators |-> v] :
        v \in SeqsUpTo({[stake_amount |-> x] : x \in StakeAmounts}, MaxValidators)}

(***************************************************************************)
(* The generate operation.                                                 *)
(***************************************************************************)
Init ==
    /\ not_existing_code \in NotExistingCodes
    /\ \E g \in GenesisFiles, s \in StakingFiles : files = FilesWith(g, s)
    /\ config \in Configs
    /\ clock \in 1..MaxClock
    /\ pc = "start"
    /\ db = EmptyMap
    /\ eng = EngineIdle
    /\ bundle_state = EmptyMap
    /\ genesis_state = EmptyMap
    /\ ret = [db |-> EmptyMap, bundle_state |-> EmptyMap]
    /\ artifacts = NoArtifacts
    /\ ver = VerifyIdle

Next ==
    \/ GenerateStart
    \/ EngineStep
    \/ EngineReturn
    \/ GenerateCheck
    \/ GenerateWriteBundle
    \/ GenerateWriteAccounts
    \/ GenerateWriteContracts

Spec == Init /\ [][Next]_vars

(***************************************************************************)
(* The engine on its own: execute_revm_sequential called on a seeded view  *)
(* with a batch of transactions, with or without a pre-existing delta.     *)
(***************************************************************************)
EngineGenesisFiles ==
    { FileOf(<<" ", "5", "5", "\n">>),
      FileOf(<<"F", "0", "6", "0", "0", "1">>),
      FileOf(<<"f", "1">>),
      FileOf(<<"f", "2">>),
      FileOf(<<"f", "d", "4", "9", "f", "d", "3", "6", "f", "2">>),
      FileOf(<<"f", "e">>) }

EngineStakingFiles == { FileOf(<<>>), DefaultFile }

\* the transactions a batch is drawn from
TxPool ==
    { new_system_call_txn(GENESIS_ADDR, <<>>),
      new_system_call_txn_with_value(GENESIS_ADDR, <<>>, 1),
      new_system_call_txn_with_value(GENESIS_ADDR, <<>>, 20),
      new_system_call_txn_with_value(STAKING_ADDR, <<>>, 1),
      new_system_create_txn(<<0>>, <<>>) }

\* the delta of one transaction executed alone on a database (Ok case)
RunOne(base, env, tx) ==
    LET st == StateWithBundleUpdate(base)
    IN  MergeTransitions(Commit(st, Transact(st, env, tx).state)).bundle

InitEngine ==
    /\ not_existing_code \in NotExistingCodes
    /\ \E g \in EngineGenesisFiles, s \in EngineStakingFiles : files = FilesWith(g, s)
    /\ config = [chain_id |-> 1, validators |-> <<[stake_amount |-> 1]>>]
    /\ clock \in 1..MaxClock
    /\ pc = "engine"
    /\ db = deploy_bsc_style(files, calculate_total_stake(config))
    /\ \E txs \in SeqsUpTo(TxPool, MaxBatch) :
       \E pre \in {NoBundle,
                   SomeBundle(RunOne(db, prepare_env(config.chain_id, clock),
                                     new_system_call_txn_with_value(GENESIS_ADDR, <<>>, 1)))} :
          eng = EngineCall(db, prepare_env(config.chain_id, clock), txs, pre)
    /\ bundle_state = EmptyMap
    /\ genesis_state = EmptyMap
    /\ ret = [db |-> EmptyMap, bundle_state |-> EmptyMap]
    /\ artifacts = NoArtifacts
    /\ ver = VerifyIdle

NextEngine ==
    \/ EngineStep
    \/ EngineReturn

SpecEngine == InitEngine /\ [][NextEngine]_vars

(***************************************************************************)
(* The verify operation: verify_genesis_file (verify.rs:76-182), run up to *)
(* MaxRuns times on the same file.                                         *)
(***************************************************************************)
\* the run is over: its end is recorded
VerifyEnds(kind, report, reason, outcome, log) ==
    [ver EXCEPT !.phase = "ended",
                !.runs = Append(@, RunEnd(kind, report, reason, ver.calls, outcome, log))]

\* lines 81-133: the file is read and parsed, the view is rehydrated entry by
\* entry in the order of the map
VerifyLoad ==
    /\ ver.phase = "start"
    /\ IF ~ver.file.exists
       THEN /\ ver' = VerifyEnds("Err", NoReport, "Failed to read genesis file",
                                 NoOutcome, <<>>)
            /\ UNCHANGED db
       ELSE IF ~ver.file.parses
       THEN /\ ver' = VerifyEnds("Err", NoReport, "Failed to parse genesis.json",
                                 NoOutcome, <<>>)
            /\ UNCHANGED db
       ELSE \E order \in Orders(DOMAIN ver.file.alloc) :
              LET fault == LoadFault(ver.file.alloc, order)
              IN  IF fault = "Err"
                  THEN /\ ver' = VerifyEnds("Err", NoReport, "Invalid address",
                                            NoOutcome, <<>>)
                       /\ UNCHANGED db
                  ELSE IF fault = "Panic"
                  THEN /\ ver' = VerifyEnds("Panic", NoReport, "Invalid bytecode hex",
                                            NoOutcome, <<>>)
                       /\ UNCHANGED db
                  ELSE /\ db' = Rehydrate(EmptyMap, ver.file.alloc, order)
                       /\ ver' = [ver EXCEPT !.phase = "loaded"]
    /\ UNCHANGED <<not_existing_code, files, config, clock, pc, eng, bundle_state,
                   genesis_state, ret, artifacts>>

\* lines 136-169: without the contract the report is returned at once; with
\* it the query is built, the environment is prepared (the clock is read) and
\* the engine is called
VerifyQuery ==
    /\ ver.phase = "loaded"
    /\ IF ~HasVm(ver.file.alloc)
       THEN /\ ver' = VerifyEnds("Ok", MissingContractResult, "", NoOutcome, <<>>)
            /\ UNCHANGED <<clock, eng>>
       ELSE \E now \in clock..MaxClock :
              LET tx == new_system_call_txn(VALIDATOR_MANAGER_ADDR,
                                            GetActiveValidatorsCallData)
                  env == prepare_env(1, now)
              IN  /\ clock' = now
                  /\ eng' = EngineCall(db, env, <<tx>>, NoBundle)
                  /\ ver' = [ver EXCEPT !.phase = "querying",
                                        !.calls = Append(@, [txs |-> <<tx>>,
                                                             pre_bundle |-> NoBundle])]
    /\ UNCHANGED <<not_existing_code, files, config, pc, db, bundle_state,
                   genesis_state, ret, artifacts>>

\* lines 171-181: the first outcome is processed into the report; an EVM
\* error and an empty list of outcomes are errors
VerifyReturn ==
    /\ ver.phase = "querying"
    /\ eng.phase \in {"returned", "error"}
    /\ ver' = IF eng.phase = "error"
              THEN VerifyEnds("Err", NoReport, "EVM execution failed", NoOutcome, <<>>)
              ELSE IF eng.results = <<>>
              THEN VerifyEnds("Err", NoReport, "No execution result returned",
                              NoOutcome, <<>>)
              ELSE VerifyEnds("Ok", process_execution_result(eng.results[1]), "",
                              SomeOutcome(eng.results[1]), ProcessLog(eng.results[1]))
    /\ UNCHANGED <<not_existing_code, files, config, clock, pc, db, eng, bundle_state,
                   genesis_state, ret, artifacts>>

\* the operation is invoked again on the same file: every local is fresh
VerifyAgain ==
    /\ ver.phase = "ended"
    /\ Len(ver.runs) < MaxRuns
    /\ ver' = [ver EXCEPT !.phase = "start", !.calls = <<>>]
    /\ db' = EmptyMap
    /\ eng' = EngineIdle
    /\ UNCHANGED <<not_existing_code, files, config, clock, pc, bundle_state,
                   genesis_state, ret, artifacts>>

\* the snapshots the verifier is tried with
KeyLower == <<"0", "x", "1", "6", "2", "5", "f", "2", "0", "0", "1">>
KeyMixed == <<"0", "x", "1", "6", "2", "5", "F", "2", "0", "0", "1">>
KeyBare == <<"1", "6", "2", "5", "f", "2", "0", "0", "1">>
KeyGenesis == <<"0", "x", "1", "6", "2", "5", "f", "0", "0", "0", "1">>
KeyBad == <<"0", "x", "z", "z">>

\* the code of the ValidatorManagement entry: hex text, with or without 0x
VmCodes ==
    { <<"0", "x", "f", "3", "0", "1", "0", "7", "0", "1", "0", "1">>,
      <<"f", "3", "0", "1", "0", "7", "0", "1">>,
      <<"0", "0">>,
      <<"f", "d", "4", "9", "f", "d", "3", "6", "f", "2", "a", "a">>,
      <<"f", "d", "0", "1", "0", "2", "0", "3", "0", "4">>,
      <<"f", "d", "4", "9">>,
      <<"f", "e">>,
      <<"4", "2", "0", "7", "0", "1", "0", "1">>,
      <<"5", "5">>,
      <<"z", "z">> }

VmEntry(code) == AllocEntry(NoText, NoNonce, SomeText(code), NoStorage)

GenesisEntry ==
    AllocEntry(SomeText(<<"0", "x", "5">>), SomeNonce(1), NoText,
               SomeStorage(<<"0", "x", "0">> :> <<"0", "x", "7">>))

VerifyAllocs ==
    { EmptyMap, KeyGenesis :> GenesisEntry, KeyBad :> GenesisEntry }
        \cup { k :> VmEntry(c) : k \in {KeyLower, KeyMixed, KeyBare}, c \in VmCodes }
        \cup { (KeyLower :> VmEntry(c)) @@ (KeyGenesis :> GenesisEntry) :
                    c \in { <<"f", "e">>, <<"z", "z">> } }
        \cup { (KeyLower :> VmEntry(<<"f", "e">>)) @@ (KeyBad :> GenesisEntry),
               (KeyLower :> VmEntry(<<"z", "z">>)) @@ (KeyBad :> GenesisEntry) }

VerifyFiles == {NoGenesisFile, BadGenesisFile} \cup {GenesisJson(a) : a \in VerifyAllocs}

InitVerify ==
    /\ not_existing_code \in NotExistingCodes
    /\ files = FilesWith(DefaultFile, DefaultFile)
    /\ config = [chain_id |-> 1, validators |-> <<>>]
    /\ clock \in 1..MaxClock
    /\ pc = "verify"
    /\ db = EmptyMap
    /\ eng = EngineIdle
    /\ bundle_state = EmptyMap
    /\ genesis_state = EmptyMap
    /\ ret = [db |-> EmptyMap, bundle_state |-> EmptyMap]
    /\ artifacts = NoArtifacts
    /\ \E f \in VerifyFiles :
          ver = [phase |-> "start", file |-> f, calls |-> <<>>, runs |-> <<>>]

NextVerify ==
    \/ VerifyLoad
    \/ VerifyQuery
    \/ EngineStep
    \/ EngineReturn
    \/ VerifyReturn
    \/ VerifyAgain

SpecVerify == InitVerify /\ [][NextVerify]_vars

(***************************************************************************)
(* The transaction builders on their own: a batch is put together from the *)
(* envelopes the three builders of the tool return (utils.rs:249-286,      *)
(* genesis.rs:550-617).                                                    *)
(***************************************************************************)
\* the code and the arguments of a deployment
CreateCodes == {<<0>>, <<OP_RETURN, 1>>}
CreateArgs == {<<>>, <<1>>}

BuildPush(tx) ==
    /\ pc = "build"
    /\ Len(eng.txs) < MaxBatch
    /\ eng' = [eng EXCEPT !.txs = Append(@, tx)]
    /\ UNCHANGED <<not_existing_code, ver, files, config, clock, pc, db, bundle_state,
                   genesis_state, ret, artifacts>>

BuildInitialize == BuildPush(call_genesis_initialize(GENESIS_ADDR, config))

BuildQuery == BuildPush(call_get_active_validators)

BuildCreate == \E code \in CreateCodes, args \in CreateArgs :
                  BuildPush(new_system_create_txn(code, args))

InitBuild ==
    /\ not_existing_code \in NotExistingCodes
    /\ files = FilesWith(DefaultFile, DefaultFile)
    /\ config \in Configs
    /\ clock = 1
    /\ pc = "build"
    /\ db = EmptyMap
    /\ eng = EngineIdle
    /\ bundle_state = EmptyMap
    /\ genesis_state = EmptyMap
    /\ ret = [db |-> EmptyMap, bundle_state |-> EmptyMap]
    /\ artifacts = NoArtifacts
    /\ ver = VerifyIdle

NextBuild ==
    \/ BuildInitialize
    \/ BuildQuery
    \/ BuildCreate

SpecBuild == InitBuild /\ [][NextBuild]_vars

(***************************************************************************)
(* The generate command: run_generate (main.rs:145-178) calls               *)
(* genesis_generate, hands the returned view and delta to verify_result    *)
(* (post_genesis.rs:49-100), which queries the active validators, and then *)
(* returns Ok.                                                             *)
(***************************************************************************)
\* print_active_validators_result (genesis.rs:619-662) inside
\* handle_execution_result (post_genesis.rs:17-46): what the handler does
\* with the outcome of the query
PostCheck(result, cfg) ==
    CASE result.tag = "Success" ->
            IF ~AbiDecodable(result.output) THEN "panic"
            ELSE IF result.output[1] # Len(cfg.validators) THEN "mismatch logged"
            ELSE "validators logged"
      [] result.tag = "Revert" -> "revert logged"
      [] OTHER -> "halt logged"

\* verify_active_validators: the query is executed on the returned view with
\* the returned delta as pre-existing delta, in a fresh environment
PostQuery ==
    /\ pc = "done"
    /\ \E now \in clock..MaxClock :
          /\ clock' = now
          /\ eng' = EngineCall(ret.db, prepare_env(config.chain_id, now),
                               <<call_get_active_validators>>,
                               SomeBundle(ret.bundle_state))
    /\ pc' = "post_query"
    /\ UNCHANGED <<not_existing_code, ver, files, config, db, bundle_state,
                   genesis_state, ret, artifacts>>

\* execute_verification's match and the end of run_generate: an engine error
\* is logged, the first outcome is handed to the handler, whose only way to
\* stop the command is the panic of a failed decode; then Ok(())
PostHandle ==
    /\ pc = "post_query"
    /\ eng.phase \in {"returned", "error"}
    /\ pc' = IF eng.phase = "error" THEN "generate_ok"
             ELSE IF eng.results = <<>> THEN "generate_ok"
             ELSE IF PostCheck(eng.results[1], config) = "panic" THEN "panicked"
             ELSE "generate_ok"
    /\ UNCHANGED <<not_existing_code, ver, files, config, clock, db, eng, bundle_state,
                   genesis_state, ret, artifacts>>

\* the bytecode files the Genesis and the ValidatorManagement contract are
\* tried with
PostGenesisFiles == { DefaultFile, FileOf(<<"5", "5">>) }

PostVmFiles ==
    { DefaultFile,
      FileOf(<<"f", "3", "0", "0">>),
      FileOf(<<"f", "3", "0", "1", "0", "7", "0", "1", "0", "1">>),
      FileOf(<<"f", "3", "0", "1">>),
      FileOf(<<"f", "d", "4", "9", "f", "d", "3", "6", "f", "2">>),
      FileOf(<<"f", "e">>) }

FilesPost(genesis_file, vm_file) ==
    [n \in ContractNames |->
        IF n = "Genesis" THEN genesis_file
        ELSE IF n = "ValidatorManagement" THEN vm_file
        ELSE DefaultFile]

\* the generate command from its start, with the bytecode files above
InitPost ==
    /\ not_existing_code \in NotExistingCodes
    /\ \E g \in PostGenesisFiles, v \in PostVmFiles : files = FilesPost(g, v)
    /\ config \in Configs
    /\ clock \in 1..MaxClock
    /\ pc = "start"
    /\ db = EmptyMap
    /\ eng = EngineIdle
    /\ bundle_state = EmptyMap
    /\ genesis_state = EmptyMap
    /\ ret = [db |-> EmptyMap, bundle_state |-> EmptyMap]
    /\ artifacts = NoArtifacts
    /\ ver = VerifyIdle

NextPost ==
    \/ GenerateStart
    \/ EngineStep
    \/ EngineReturn
    \/ GenerateCheck
    \/ GenerateWriteBundle
    \/ GenerateWriteAccounts
    \/ GenerateWriteContracts
    \/ PostQuery
    \/ PostHandle

SpecPost == InitPost /\ [][NextPost]_vars

(***************************************************************************)
(* Properties of the Sequential Execution Engine.                          *)
(***************************************************************************)
\* the view the call starts from: the base database with the pre-existing
\* delta, if any, committed by hand
StartDb(e) ==
    IF e.pre_bundle.some THEN CommitBundle(e.st.base, e.pre_bundle.bundle) ELSE e.st.base

\* the transactions applied one at a time, each in a call of its own on the
\* database into which the previous delta was committed by hand
RECURSIVE ManualRun(_, _, _)
ManualRun(base, env, txs) ==
    IF txs = <<>> THEN base
    ELSE ManualRun(CommitBundle(base, RunOne(base, env, Head(txs))), env, Tail(txs))

Reverse(q) == [i \in 1..Len(q) |-> q[Len(q) + 1 - i]]

\* C1: the transactions run strictly in list order, and transaction i + 1
\* executes against a state that holds all effects of transactions 1..i: the
\* k-th executed transaction is the k-th of the list, and the state it saw is
\* the start view with transactions 1..k-1 applied and committed one by one.
C1_SequentialCommit ==
    /\ Len(eng.log) \in {eng.i, eng.i + 1}
    /\ \A k \in 1..Len(eng.log) :
        /\ eng.log[k].tx = eng.txs[k]
        /\ eng.log[k].view =
              ViewOfDb(ManualRun(StartDb(eng), eng.env, SubSeq(eng.txs, 1, k - 1)))

\* C1 witness: a second transaction has executed and saw a state that
\* differs from the one the call started from (the first one's effects).
C1_Witness ==
    /\ Len(eng.log) >= 2
    /\ eng.log[2].view # eng.log[1].view
    /\ eng.log[2].view[GENESIS_ADDR].storage # eng.log[1].view[GENESIS_ADDR].storage

\* C2: when the call returns, the final state of the batch equals the state
\* obtained by applying the transactions one at a time in the same order and
\* committing each delta by hand before the next; without a pre-existing
\* delta the returned delta, committed into the base view, gives that state.
C2_BatchEqualsManual ==
    eng.phase = "returned" =>
        /\ ViewOfState(eng.st) = ViewOfDb(ManualRun(StartDb(eng), eng.env, eng.txs))
        /\ ~eng.pre_bundle.some =>
              ViewOfDb(CommitBundle(eng.st.base, eng.bundle))
                  = ViewOfDb(ManualRun(eng.st.base, eng.env, eng.txs))

\* C2 witness: a returned batch of at least two transactions whose final
\* state differs from the start and from the one the reversed batch gives.
C2_Witness ==
    /\ eng.phase = "returned"
    /\ ~eng.pre_bundle.some
    /\ Len(eng.txs) >= 2
    /\ \A k \in 1..Len(eng.txs) : is_success(eng.results[k])
    /\ ViewOfState(eng.st) # ViewOfDb(eng.st.base)
    /\ ViewOfState(eng.st) # ViewOfDb(ManualRun(eng.st.base, eng.env, Reverse(eng.txs)))

\* C18: the delta the engine returns has an entry for every account that a
\* transaction of the batch touched, whether or not its value changed.
C18_TouchedKeptInDelta ==
    eng.phase = "returned"
        => \A k \in 1..Len(eng.log) :
              \A a \in eng.log[k].touched : a \in DOMAIN eng.bundle

\* the outcome of transaction k of a batch: what the machine returns for it
\* on the start view with transactions 1..k-1 applied
OutcomeOf(e, k) ==
    Transact(StateWithBundleUpdate(ManualRun(StartDb(e), e.env, SubSeq(e.txs, 1, k - 1))),
             e.env, e.txs[k])

\* C23: a call that returns Ok returns as many outcomes as the batch has
\* transactions, outcome k being the outcome of transaction k, whatever the
\* outcomes before it were; a call in which the machine reports an error on
\* a transaction executes no transaction after it and returns neither
\* outcomes nor a delta.
C23_OutcomesPerTransaction ==
    /\ \A k \in 1..Len(eng.results) :
          /\ OutcomeOf(eng, k).ok
          /\ eng.results[k] = OutcomeOf(eng, k).result
    /\ eng.phase = "loop" => Len(eng.results) = eng.i /\ Len(eng.log) = eng.i
    /\ eng.phase = "returned"
          => Len(eng.results) = Len(eng.txs) /\ Len(eng.log) = Len(eng.txs)
    /\ eng.phase = "error"
          => /\ Len(eng.log) = eng.i + 1
             /\ Len(eng.results) = eng.i
             /\ ~OutcomeOf(eng, eng.i + 1).ok
             /\ eng.error = OutcomeOf(eng, eng.i + 1).error
             /\ eng.bundle = EmptyMap

\* C23 witness: a returned batch of two transactions, the first halted and
\* the second succeeded.
C23_Witness ==
    /\ eng.phase = "returned"
    /\ Len(eng.txs) = 2
    /\ eng.results[1].tag = "Halt"
    /\ eng.results[2].tag = "Success"
    /\ eng.txs[1] # eng.txs[2]

(***************************************************************************)
(* Properties of the generation path.                                      *)
(***************************************************************************)
\* the merged snapshot and the bytecode map as written to the output directory
Snapshot == artifacts.genesis_accounts.content
BytecodeMap == artifacts.genesis_contracts.content

\* the state delta the engine returned, before the funding account is dropped
Delta == ret.bundle_state

\* C3: the privileged funding account is never a key of the merged snapshot,
\* neither of the one being built nor of the one written.
C3_NoSystemCallerInSnapshot ==
    /\ SYSTEM_CALLER \notin DOMAIN genesis_state
    /\ SYSTEM_CALLER \notin DOMAIN Snapshot

\* C3 witness: the snapshot is written and the delta of the execution held an
\* entry, with account info, for the funding account.
C3_Witness ==
    /\ artifacts.genesis_accounts.written
    /\ SYSTEM_CALLER \in DOMAIN Delta
    /\ Delta[SYSTEM_CALLER].info.some

\* C4: once an outcome that is not Success has been returned, the run is
\* still before the check or has aborted, and no artifact is written; so an
\* artifact exists only if every outcome is Success.
C4_NoArtifactOnFailure ==
    /\ (eng.phase = "returned" /\ \E i \in 1..Len(eng.results) : eng.results[i].tag # "Success")
          => (artifacts = NoArtifacts /\ pc \in {"executing", "panicked"})
    /\ artifacts # NoArtifacts
          => (eng.phase = "returned"
              /\ \A i \in 1..Len(eng.results) : eng.results[i].tag = "Success")

\* C4 witness: the transaction reverted and the run has aborted.
C4_Witness ==
    /\ pc = "panicked"
    /\ eng.phase = "returned"
    /\ eng.results[1].tag = "Revert"

\* C5: in the written snapshot, every address of the delta that carries
\* account info has exactly that info; its storage is the delta's present
\* slot values, laid over the seeded storage when the address is a seeded
\* contract.  A delta entry without info (the execution removed an empty
\* account) leaves a seeded contract as an empty account: no balance, no
\* nonce, empty code, no storage.
C5_MergeSemantics ==
    artifacts.genesis_accounts.written =>
        \A a \in DOMAIN bundle_state :
            LET d == bundle_state[a]
            IN  IF d.info.some
                THEN /\ a \in DOMAIN Snapshot
                     /\ Snapshot[a].info = d.info.info
                     /\ Snapshot[a].storage =
                           IF a \in ContractAddrs
                           THEN Extend(SeededGenesisState[a].storage, PresentValues(d.storage))
                           ELSE PresentValues(d.storage)
                ELSE IF a \in ContractAddrs
                THEN /\ a \in DOMAIN Snapshot
                     /\ Snapshot[a].info.balance = 0
                     /\ Snapshot[a].info.nonce = 0
                     /\ Snapshot[a].info.code.bytes = <<>>
                     /\ Snapshot[a].storage = EmptyMap
                ELSE a \notin DOMAIN Snapshot

\* C5 witness: the snapshot is written; the delta changed the balance and a
\* storage slot of the seeded Genesis contract and brought in a new address.
C5_Witness ==
    /\ artifacts.genesis_accounts.written
    /\ GENESIS_ADDR \in DOMAIN bundle_state
    /\ bundle_state[GENESIS_ADDR].info.some
    /\ bundle_state[GENESIS_ADDR].info.info.balance # 0
    /\ DOMAIN bundle_state[GENESIS_ADDR].storage # {}
    /\ \E a \in DOMAIN bundle_state : a \notin ContractAddrs /\ bundle_state[a].info.some

\* C6: every address of the state delta other than the funding account is
\* an entry of the written snapshot.
C6_TouchedInSnapshot ==
    artifacts.genesis_accounts.written =>
        (DOMAIN Delta \ {SYSTEM_CALLER}) \subseteq DOMAIN Snapshot

\* C6 witness: the snapshot is written and holds an address of the delta that
\* is no seeded contract, next to a seeded one the delta touched.
C6_Witness ==
    /\ artifacts.genesis_accounts.written
    /\ \E a \in DOMAIN Delta \ {SYSTEM_CALLER} : a \notin ContractAddrs
    /\ \E a \in DOMAIN Delta : a \in ContractAddrs

\* C7: the bytecode map holds, for every seeded contract, the code the seeder
\* installed, and for every other address of the delta that carries code, the
\* deployed code; it holds no other address.
C7_CodeRoundTrip ==
    artifacts.genesis_contracts.written =>
        /\ \A a \in ContractAddrs :
              a \in DOMAIN BytecodeMap /\ BytecodeMap[a] = db[a].info.code.bytes
        /\ \A a \in DOMAIN Delta \ (ContractAddrs \cup {SYSTEM_CALLER}) :
              (Delta[a].info.some /\ Delta[a].info.info.code.some)
                  => (a \in DOMAIN BytecodeMap
                      /\ BytecodeMap[a] = Delta[a].info.info.code.bytes)
        /\ DOMAIN BytecodeMap \subseteq
              ContractAddrs \cup {a \in DOMAIN Delta : Delta[a].info.some}

\* C7 witness: the map is written; the Genesis contract was seeded with
\* non-empty code and touched by the delta, and a contract was deployed.
C7_Witness ==
    /\ artifacts.genesis_contracts.written
    /\ db[GENESIS_ADDR].info.code.bytes # <<>>
    /\ GENESIS_ADDR \in DOMAIN Delta
    /\ POOL_ADDR \in DOMAIN BytecodeMap
    /\ BytecodeMap[POOL_ADDR] # <<>>

\* C8: the keys of the bytecode map are exactly the snapshot addresses whose
\* info has a code object (present, possibly of length zero), each mapped to
\* the bytes of that object; an entry whose info has none is never a key.
C8_BytecodeMapKeys ==
    artifacts.genesis_contracts.written =>
        /\ DOMAIN BytecodeMap = {a \in DOMAIN Snapshot : Snapshot[a].info.code.some}
        /\ \A a \in DOMAIN BytecodeMap : BytecodeMap[a] = Snapshot[a].info.code.bytes

\* C8 witness: the map is written and the snapshot holds an entry without a
\* code object, one with empty code and one with non-empty code.
C8_Witness ==
    /\ artifacts.genesis_contracts.written
    /\ \E a \in DOMAIN Snapshot : ~Snapshot[a].info.code.some
    /\ \E a \in DOMAIN Snapshot :
          Snapshot[a].info.code.some /\ Snapshot[a].info.code.bytes = <<>>
    /\ \E a \in DOMAIN Snapshot : Snapshot[a].info.code.bytes # <<>>

RECURSIVE SumBalances(_, _)
SumBalances(view, addrs) ==
    IF addrs = {} THEN 0
    ELSE LET a == CHOOSE x \in addrs : TRUE
         IN  view[a].info.balance + SumBalances(view, addrs \ {a})

\* C9: in the seeded view the funding account has nonce 1 and balance
\* aggregate stake + 10^7 ether; the Genesis contract has balance aggregate
\* stake + 10^6 ether and every other registry contract balance zero, so the
\* balances of the registry contracts sum to aggregate stake + 10^6 ether;
\* every registry entry has an account with a code object, which holds the
\* bytes its file's hex text decodes to.  The sums are 256-bit additions.
C9_SeededBalances ==
    pc \notin {"start", "panicked", "engine"} =>
        LET total_stake == calculate_total_stake(config)
        IN  /\ db[SYSTEM_CALLER].info.nonce = 1
            /\ db[SYSTEM_CALLER].info.balance = U256Add(total_stake, SYSTEM_CALLER_BUFFER)
            /\ db[GENESIS_ADDR].info.balance = U256Add(total_stake, GENESIS_BUFFER)
            /\ \A a \in ContractAddrs \ {GENESIS_ADDR} : db[a].info.balance = 0
            /\ SumBalances(db, ContractAddrs) = U256Add(total_stake, GENESIS_BUFFER)
            /\ \A i \in 1..Len(CONTRACTS) :
                  /\ CONTRACTS[i][2] \in DOMAIN db
                  /\ db[CONTRACTS[i][2]].info.code.some
                  /\ HexDecodable(Trim(files[CONTRACTS[i][1]].text)) =>
                        db[CONTRACTS[i][2]].info.code.bytes
                            = HexDecode(Trim(files[CONTRACTS[i][1]].text))

\* C9 witness: a seeded view for a positive aggregate stake.
C9_Witness ==
    /\ pc = "executing"
    /\ calculate_total_stake(config) = 2
    /\ db[GENESIS_ADDR].info.balance = 2 + GENESIS_BUFFER
    /\ db[GENESIS_ADDR].info.code.bytes # <<>>

\* C10: whenever the bytecode file of a registered contract is missing or is
\* not hex text, the run never gets past the seeder: no seeded view, no
\* engine call, no artifact.
C10_AbortOnBadBytecode ==
    (\E n \in ContractNames :
        ~CanRead(files[n]) \/ ~HexDecodable(Trim(files[n].text)))
        => /\ pc \in {"start", "panicked"}
           /\ db = EmptyMap
           /\ eng.phase = "idle"
           /\ artifacts = NoArtifacts

\* the account a reader of the snapshot finds at an address: an address
\* without an entry is an empty account, a slot without a value is zero
SnapshotAccount(snapshot, a) ==
    IF a \in DOMAIN snapshot
    THEN [balance |-> snapshot[a].info.balance,
          nonce |-> snapshot[a].info.nonce,
          code |-> CodeBytes(snapshot[a].info),
          storage |-> [k \in Slots |-> IF k \in DOMAIN snapshot[a].storage
                                       THEN snapshot[a].storage[k] ELSE 0]]
    ELSE [balance |-> 0, nonce |-> 0, code |-> <<>>, storage |-> [k \in Slots |-> 0]]

\* the account a reader of a world state finds at an address
WorldAccount(view, a) ==
    [balance |-> view[a].info.balance,
     nonce |-> view[a].info.nonce,
     code |-> CodeBytes(view[a].info),
     storage |-> view[a].storage]

C24_BaseViewUntouched ==
    /\ eng.phase # "idle"
          => /\ db = deploy_bsc_style(files, calculate_total_stake(config))
             /\ eng.st.base = db
             /\ Len(eng.log) >= 1 => eng.log[1].view = ViewOfDb(db)
    /\ pc \in {"checked", "bundle_written", "accounts_written", "done"}
          => /\ ret.db = deploy_bsc_style(files, calculate_total_stake(config))
             /\ ViewOfState(StateWithBundleUpdate(ret.db)) = eng.log[1].view

\* C24 witness: genesis_generate has returned after an execution that left
\* the engine in a state other than the seeded view.
C24_Witness ==
    /\ pc = "done"
    /\ ViewOfState(eng.st) # ViewOfDb(ret.db)
    /\ ViewOfState(eng.st)[GENESIS_ADDR].storage # ViewOfDb(ret.db)[GENESIS_ADDR].storage
    /\ eng.st.base = ret.db

\* the merged snapshot a generation run started at the given time emits for
\* the files and the configuration of this run
SnapshotAt(now) ==
    LET seeded == deploy_bsc_style(files, calculate_total_stake(config))
        delta == RunOne(seeded, prepare_env(config.chain_id, now),
                        call_genesis_initialize(GENESIS_ADDR, config))
    IN  MergeBundle(SeededGenesisState, RemoveSystemCaller(delta))

\* C27: the merged snapshot a generation run emits is the one every other
\* run on the same bytecode files and the same configuration emits,
\* whenever that other run is started.
C27_GenerationDeterministic ==
    artifacts.genesis_accounts.written =>
        \A now \in 1..MaxClock : Snapshot = SnapshotAt(now)

\* the sum of the stake amounts as a number
RECURSIVE ExactStake(_)
ExactStake(validators) ==
    IF validators = <<>> THEN 0
    ELSE Head(validators).stake_amount + ExactStake(Tail(validators))

\* C28: for every list of stake amounts the aggregate stake is the sum of
\* the amounts, the seeded balances of the funding account and of Genesis
\* are that sum plus their buffers, and the funding account can afford the
\* value of the initialize transaction.
C28_NoWrap ==
    eng.phase # "idle"
        => /\ calculate_total_stake(config) = ExactStake(config.validators)
           /\ db[SYSTEM_CALLER].info.balance
                 = ExactStake(config.validators) + SYSTEM_CALLER_BUFFER
           /\ db[GENESIS_ADDR].info.balance
                 = ExactStake(config.validators) + GENESIS_BUFFER
           /\ db[SYSTEM_CALLER].info.balance >= eng.txs[1].value

\* C30: every entry of the written snapshot that carries code of one byte
\* or more has the hash of that code as its code hash, and never the hash of
\* the empty code.
C30_CodeHashOfCode ==
    artifacts.genesis_accounts.written =>
        \A a \in DOMAIN Snapshot :
            CodeBytes(Snapshot[a].info) # <<>>
                => /\ Snapshot[a].info.code_hash = Keccak(CodeBytes(Snapshot[a].info))
                   /\ Snapshot[a].info.code_hash # KECCAK_EMPTY

(***************************************************************************)
(* Properties of the Replay Verifier.                                      *)
(***************************************************************************)
\* the addresses the keys of a snapshot stand for
AllocAddresses(alloc) ==
    {ParseAddress(k).addr : k \in {x \in DOMAIN alloc : ParseAddress(x).ok}}

\* the raw output cut to the length a diagnostic shows
TruncatedOutput(output) ==
    IF Len(output) > OUTPUT_PREFIX_LEN THEN SubSeq(output, 1, OUTPUT_PREFIX_LEN)
    ELSE output

\* C11: a run on a snapshot without an entry at the ValidatorManagement
\* address never calls the engine, and the report it returns has success
\* false and exactly one error, the one that names the missing address.
C11_MissingContractReport ==
    \A i \in 1..Len(ver.runs) :
        VALIDATOR_MANAGER_ADDR \notin AllocAddresses(ver.file.alloc)
            => /\ ver.runs[i].calls = <<>>
               /\ ver.runs[i].kind = "Ok" =>
                    /\ ver.runs[i].report.success = FALSE
                    /\ ver.runs[i].report.validator_count = 0
                    /\ Len(ver.runs[i].report.errors) = 1
                    /\ ver.runs[i].report.errors[1].msg
                          = "ValidatorManagement contract not found at expected address"
                    /\ ver.runs[i].report.errors[1].data
                          = SomeText(DebugAddress(VALIDATOR_MANAGER_ADDR))

\* C11 witness: a run on a snapshot that holds only the Genesis contract has
\* returned its report.
C11_Witness ==
    /\ ver.file.parses
    /\ AllocAddresses(ver.file.alloc) = {GENESIS_ADDR}
    /\ Len(ver.runs) >= 1
    /\ ver.runs[1].kind = "Ok"
    /\ db # EmptyMap

\* C12: when the outcome of the query is Success the run returns a report:
\* with success true and the decoded records when the output decodes, with
\* success false and a decode-failure diagnostic that carries the truncated
\* raw output when it does not.
C12_DecodeFailureShowsOutput ==
    \A i \in 1..Len(ver.runs) :
        (ver.runs[i].outcome.some /\ ver.runs[i].outcome.result.tag = "Success")
            => LET output == ver.runs[i].outcome.result.output
                   report == ver.runs[i].report
               IN  /\ ver.runs[i].kind = "Ok"
                   /\ IF AbiDecodable(output)
                      THEN /\ report.success
                           /\ report.validator_count = output[1]
                           /\ report.errors = <<>>
                      ELSE /\ ~report.success
                           /\ \E j \in 1..Len(report.errors) :
                                 /\ report.errors[j].msg = "ABI decode failed"
                                 /\ report.errors[j].data
                                       = SomeText(HexEncode(TruncatedOutput(output)))

\* C13: when the outcome of the query is Revert or Halt the run returns a
\* report with success false whose one diagnostic is the raw outcome: the
\* hex text of the revert output, or the halt reason.
C13_RevertHaltReport ==
    \A i \in 1..Len(ver.runs) :
        (ver.runs[i].outcome.some /\ ver.runs[i].outcome.result.tag # "Success")
            => LET result == ver.runs[i].outcome.result
                   report == ver.runs[i].report
               IN  /\ ver.runs[i].kind = "Ok"
                   /\ ~report.success
                   /\ report.validators = <<>>
                   /\ Len(report.errors) = 1
                   /\ report.errors[1].data
                         = IF result.tag = "Revert"
                           THEN SomeText(HexEncode(result.output))
                           ELSE SomeText(<<result.reason>>)

\* C13 witness: two runs, the query of each reverted with five bytes.
C13_Witness ==
    /\ Len(ver.runs) = 2
    /\ \A i \in 1..2 :
          /\ ver.runs[i].outcome.some
          /\ ver.runs[i].outcome.result.tag = "Revert"
          /\ Len(ver.runs[i].outcome.result.output) = 5
          /\ ver.runs[i].kind = "Ok"

\* C14: two runs of the verifier on the same snapshot that return a report
\* return identical reports.
C14_VerifyIdempotent ==
    (/\ Len(ver.runs) = 2
     /\ ver.runs[1].kind = "Ok"
     /\ ver.runs[2].kind = "Ok")
        => ver.runs[1].report = ver.runs[2].report

\* C15: a run that returns a report on a snapshot with an entry at the
\* ValidatorManagement address has called the engine exactly once, with a
\* batch of one transaction, a call of that address of value zero, and with
\* no pre-existing delta.
C15_ExactlyOneQuery ==
    \A i \in 1..Len(ver.runs) :
        (/\ VALIDATOR_MANAGER_ADDR \in AllocAddresses(ver.file.alloc)
         /\ ver.runs[i].kind = "Ok")
            => /\ Len(ver.runs[i].calls) = 1
               /\ Len(ver.runs[i].calls[1].txs) = 1
               /\ ver.runs[i].calls[1].txs[1].value = 0
               /\ ver.runs[i].calls[1].txs[1].transact_to = TxCall(VALIDATOR_MANAGER_ADDR)
               /\ ver.runs[i].calls[1].pre_bundle = NoBundle

\* the names of the table of the classifier
KnownCauses == {ErrorSelectors[i][2] : i \in 1..Len(ErrorSelectors)}

\* C16: for every Revert outcome the classifier yields exactly one
\* classification, the named cause of the first four bytes of the output when
\* they are in the table and the unknown-selector one otherwise, and the
\* diagnostic holds every byte after the selector.
C16_RevertClassified ==
    \A k \in 1..Len(eng.results) :
        eng.results[k].tag = "Revert"
            => LET output == eng.results[k].output
                   a == eng.log[k].analysis
               IN  /\ a.class.some
                   /\ Len(a.class.text) = 1
                   /\ a.class.text[1] \in KnownCauses \cup {"Unknown error selector"}
                   /\ a.class.text[1] \in KnownCauses
                        <=> \E i \in 1..Len(ErrorSelectors) :
                               /\ Len(output) >= 4
                               /\ ErrorSelectors[i][1] = SubSeq(output, 1, 4)
                               /\ ErrorSelectors[i][2] = a.class.text[1]
                   /\ Len(output) > 4
                        => a.data = SomeText(HexEncode(SubSeq(output, 5, Len(output))))

\* C17: every diagnostic of an outcome that is not Success, the one the
\* engine logs and the ones the verifier reports and logs, holds the gas
\* used and, for a Revert, the classification of the error.
C17_DiagnosticsHaveGas ==
    \A i \in 1..Len(ver.runs) :
        (ver.runs[i].outcome.some /\ ver.runs[i].outcome.result.tag # "Success")
            => LET result == ver.runs[i].outcome.result
                   lines == ver.runs[i].report.errors \o ver.runs[i].log
               IN  \A j \in 1..Len(lines) :
                      /\ lines[j].gas = SomeGas(result.gas_used)
                      /\ result.tag = "Revert" => lines[j].class.some

(***************************************************************************)
(* Properties of the transactions the tool builds.                         *)
(***************************************************************************)
\* C19: the generation path calls the engine with exactly one transaction,
\* the call of the Genesis address with the initialize payload of the
\* configuration and the aggregate stake as value, on the seeded view with no
\* pre-existing delta; an artifact is written only if the outcome of that
\* one transaction is Success.
C19_SingleInitializeTx ==
    /\ eng.phase # "idle"
          => /\ Len(eng.txs) = 1
             /\ eng.txs[1].caller = SYSTEM_CALLER
             /\ eng.txs[1].transact_to = TxCall(GENESIS_ADDR)
             /\ eng.txs[1].data = InitializeCallData(config)
             /\ eng.txs[1].value = calculate_total_stake(config)
             /\ eng.pre_bundle = NoBundle
    /\ artifacts # NoArtifacts
          => /\ Len(eng.results) = 1
             /\ eng.results[1].tag = "Success"

\* C19 witness: the call of a configuration with a positive aggregate stake
\* succeeded and the three artifacts are written.
C19_Witness ==
    /\ pc = "done"
    /\ calculate_total_stake(config) > 0
    /\ Len(eng.txs) = 1
    /\ eng.txs[1].value = calculate_total_stake(config)
    /\ eng.results[1].tag = "Success"

\* C20: every transaction the builders return has the system caller as its
\* caller and gas price zero; a transaction with a value other than zero is
\* the initialize call of the Genesis address; the query and the deployment
\* have value zero.
C20_SystemTransactions ==
    \A k \in 1..Len(eng.txs) :
        /\ eng.txs[k].caller = SYSTEM_CALLER
        /\ eng.txs[k].gas_price = 0
        /\ IF eng.txs[k].transact_to = TxCreate
           THEN eng.txs[k].value = 0
           ELSE /\ eng.txs[k].value # 0
                      => /\ eng.txs[k].transact_to = TxCall(GENESIS_ADDR)
                         /\ eng.txs[k].data = InitializeCallData(config)
                /\ eng.txs[k].data = GetActiveValidatorsCallData
                      => /\ eng.txs[k].value = 0
                         /\ eng.txs[k].transact_to = TxCall(VALIDATOR_MANAGER_ADDR)

\* C20 witness: a batch of an initialize call with a positive value and a
\* query.
C20_Witness ==
    /\ pc = "build"
    /\ Len(eng.txs) = 2
    /\ eng.txs[1].value > 0
    /\ eng.txs[2].data = GetActiveValidatorsCallData

\* C25: every report the verifier returns is well formed: with success
\* true it has no error and its count is the number of its validator
\* records; with success false it has at least one error, no validator
\* record and count zero.
C25_ReportWellFormed ==
    \A i \in 1..Len(ver.runs) :
        ver.runs[i].kind = "Ok"
            => LET report == ver.runs[i].report
               IN  IF report.success
                   THEN /\ report.errors = <<>>
                        /\ report.validator_count = Len(report.validators)
                   ELSE /\ report.errors # <<>>
                        /\ report.validators = <<>>
                        /\ report.validator_count = 0

\* C25 witness: two runs returned a report of success with one validator
\* record.
C25_Witness ==
    /\ Len(ver.runs) = 2
    /\ \A i \in 1..2 :
          /\ ver.runs[i].kind = "Ok"
          /\ ver.runs[i].report.success
          /\ Len(ver.runs[i].report.validators) = 1

\* C26: a run that returns a report returns the missing-contract error
\* exactly when the rehydrated view holds no account at the
\* ValidatorManagement address.
C26_PresenceCheckAgrees ==
    (/\ ver.phase = "ended"
     /\ ver.runs[Len(ver.runs)].kind = "Ok")
        => LET report == ver.runs[Len(ver.runs)].report
           IN  (/\ ~report.success
                /\ report.errors[1].msg
                      = "ValidatorManagement contract not found at expected address")
                  <=> VALIDATOR_MANAGER_ADDR \notin DOMAIN db

(***************************************************************************)
(* Properties of the commands (main.rs).                                   *)
(***************************************************************************)
\* C29: the generate command returns Ok only if the query of the active
\* validators, executed on the returned view with the returned delta laid
\* over it, had the outcome Success and returned as many validators as the
\* configuration lists.
C29_GenerateFailsOnBadCheck ==
    pc = "generate_ok"
        => /\ eng.phase = "returned"
           /\ eng.st.base = ret.db
           /\ eng.pre_bundle = SomeBundle(ret.bundle_state)
           /\ eng.results[1].tag = "Success"
           /\ AbiDecodable(eng.results[1].output)
           /\ eng.results[1].output[1] = Len(config.validators)

\* C21: the verify command ends with Ok exactly when the core returned a
\* report with success true; it ends with an error when the report has
\* success false and when the core returned an error.
C21_VerifyExitStatus ==
    \A i \in 1..Len(ver.runs) :
        /\ ver.runs[i].exit = "Ok"
              <=> (ver.runs[i].kind = "Ok" /\ ver.runs[i].report.success)
        /\ (ver.runs[i].kind = "Err"
              \/ (ver.runs[i].kind = "Ok" /\ ~ver.runs[i].report.success))
              => ver.runs[i].exit = "Err"

\* C21 witness: the core returned a report of failure for a query that ran,
\* and the command ended with an error.
C21_Witness ==
    /\ Len(ver.runs) >= 1
    /\ ver.runs[1].kind = "Ok"
    /\ ver.runs[1].outcome.some
    /\ ~ver.runs[1].report.success
    /\ ver.runs[1].exit = "Err"

====
